---------------------------- MODULE Spec2Model ----------------------------
(***************************************************************************)
(* Model of the process-flow extraction pipeline of dtminnick/stream:      *)
(*   llm_extractor.py   safe_json_loads, FlowExtractor.extract_process_flow *)
(*                      and FlowExtractor.extract_from_documents            *)
(*   flow_database.py   FlowDatabase.insert_process_flow / insert_multiple  *)
(*                                                                         *)
(* A text is a sequence of one-character strings.  A JSON value is a       *)
(* record [t, v]: t is the Python type of the value ("dict", "list",       *)
(* "str", "int", "float", "bool", "NoneType") and v its content.  A dict   *)
(* is a sequence of <<key, value>> pairs in insertion order.               *)
(***************************************************************************)
EXTENDS Integers, Sequences, FiniteSets, TLC

(***************************************************************************)
(* Bounds of the model.                                                    *)
(***************************************************************************)
MaxDocs == 3
MaxLen == 3
MaxSaves == 3
MaxOver == 2

(***************************************************************************)
(* Characters.                                                             *)
(***************************************************************************)
WHITESPACE == {" ", "\t", "\n", "\r"}
ReWhitespace == {" ", "\t", "\n", "\r", "\f"}
ControlChars == {"\t", "\n", "\r", "\f"}
Digits == <<"0", "1", "2", "3", "4", "5", "6", "7", "8", "9">>
DigitSet == {Digits[k] : k \in 1..10}
DigitVal(c) == (CHOOSE k \in 1..10 : Digits[k] = c) - 1

At(s, i) == IF i \in 1..Len(s) THEN s[i] ELSE ""
Slice(s, i, j) == IF i > j THEN <<>> ELSE SubSeq(s, i, j)
StartsWith(s, i, lit) ==
    /\ i + Len(lit) - 1 <= Len(s)
    /\ \A k \in 1..Len(lit) : s[i + k - 1] = lit[k]

RECURSIVE SkipWs(_, _)
SkipWs(s, i) == IF At(s, i) \in WHITESPACE THEN SkipWs(s, i + 1) ELSE i

RECURSIVE DigitsEnd(_, _)
DigitsEnd(s, i) == IF At(s, i) \in DigitSet THEN DigitsEnd(s, i + 1) ELSE i

RECURSIVE IntOf(_)
IntOf(ds) ==
    IF ds = <<>> THEN 0
    ELSE 10 * IntOf(SubSeq(ds, 1, Len(ds) - 1)) + DigitVal(ds[Len(ds)])

(***************************************************************************)
(* JSON values.                                                            *)
(***************************************************************************)
JNull == [t |-> "NoneType", v |-> <<>>]
JBool(b) == [t |-> "bool", v |-> b]
JInt(n) == [t |-> "int", v |-> n]
JFloat(lit) == [t |-> "float", v |-> lit]
JStr(cs) == [t |-> "str", v |-> cs]
JList(xs) == [t |-> "list", v |-> xs]
JDict(ps) == [t |-> "dict", v |-> ps]

Ok(val, end) == [ok |-> TRUE, val |-> val, end |-> end]
Bad(end) == [ok |-> FALSE, val |-> JNull, end |-> end]

(* dict[key] = val on a sequence of pairs: a repeated key keeps its place *)
(* and takes the new value.                                                *)
DictSet(ps, key, val) ==
    IF \E k \in 1..Len(ps) : ps[k][1] = key
    THEN [k \in 1..Len(ps) |-> IF ps[k][1] = key THEN <<key, val>> ELSE ps[k]]
    ELSE Append(ps, <<key, val>>)

DictHas(ps, key) == \E k \in 1..Len(ps) : ps[k][1] = key

(* dict.get(key, default) *)
DictGet(ps, key, default) ==
    IF DictHas(ps, key)
    THEN ps[CHOOSE k \in 1..Len(ps) : ps[k][1] = key][2]
    ELSE default

(***************************************************************************)
(* json.loads: the scanner of the standard library's decoder, for texts    *)
(* without \b, \f and \u escapes.                                          *)
(***************************************************************************)
EscapeOf(c) ==
    CASE c = "n" -> "\n"
      [] c = "t" -> "\t"
      [] c = "r" -> "\r"
      [] OTHER -> c

(* the characters after an opening quote, up to the closing quote *)
RECURSIVE ScanString(_, _, _)
ScanString(s, i, acc) ==
    LET c == At(s, i) IN
    IF c = "" THEN Bad(i)
    ELSE IF c = "\"" THEN Ok(acc, i + 1)
    ELSE IF c \in ControlChars THEN Bad(i)
    ELSE IF c = "\\"
         THEN IF At(s, i + 1) \in {"\"", "\\", "/", "n", "t", "r"}
              THEN ScanString(s, i + 2, Append(acc, EscapeOf(At(s, i + 1))))
              ELSE Bad(i)
    ELSE ScanString(s, i + 1, Append(acc, c))

\* NUMBER_RE: an optional minus, an integer part without leading zeros,
\* an optional fraction and an optional exponent.  i is the index of the
\* first character, p0 of the first digit; intEnd, fracEnd and expEnd are
\* the indices after the integer part, the fraction and the exponent.
NumberValue(s, i, p0, intEnd, expEnd) ==
    IF expEnd = intEnd
    THEN Ok(JInt((IF p0 = i THEN 1 ELSE -1) * IntOf(Slice(s, p0, intEnd - 1))), intEnd)
    ELSE Ok(JFloat(Slice(s, i, expEnd - 1)), expEnd)

ExponentEnd(s, fracEnd, q) ==
    IF At(s, fracEnd) \in {"e", "E"} /\ At(s, q) \in DigitSet
    THEN DigitsEnd(s, q + 1)
    ELSE fracEnd

NumberExponent(s, i, p0, intEnd, fracEnd) ==
    NumberValue(s, i, p0, intEnd,
                ExponentEnd(s, fracEnd,
                            IF At(s, fracEnd + 1) \in {"+", "-"}
                            THEN fracEnd + 2 ELSE fracEnd + 1))

NumberFraction(s, i, p0, intEnd) ==
    NumberExponent(s, i, p0, intEnd,
                   IF At(s, intEnd) = "." /\ At(s, intEnd + 1) \in DigitSet
                   THEN DigitsEnd(s, intEnd + 2)
                   ELSE intEnd)

NumberInteger(s, i, p0) ==
    IF At(s, p0) = "0" THEN NumberFraction(s, i, p0, p0 + 1)
    ELSE IF At(s, p0) \in DigitSet
         THEN NumberFraction(s, i, p0, DigitsEnd(s, p0 + 1))
         ELSE Bad(i)

ScanNumber(s, i) == NumberInteger(s, i, IF At(s, i) = "-" THEN i + 1 ELSE i)

(* the constants tried when no number matches *)
NumberOrConstant(s, i, number) ==
    IF number.ok THEN number
    ELSE IF StartsWith(s, i, <<"N", "a", "N">>) THEN Ok(JFloat(Slice(s, i, i + 2)), i + 3)
    ELSE IF StartsWith(s, i, <<"I", "n", "f", "i", "n", "i", "t", "y">>)
         THEN Ok(JFloat(Slice(s, i, i + 7)), i + 8)
    ELSE IF StartsWith(s, i, <<"-", "I", "n", "f", "i", "n", "i", "t", "y">>)
         THEN Ok(JFloat(Slice(s, i, i + 8)), i + 9)
    ELSE Bad(i)

StringValue(r) == IF r.ok THEN Ok(JStr(r.val), r.end) ELSE Bad(r.end)

RECURSIVE ScanOnce(_, _), ScanArray(_, _, _), ArrayAfterValue(_, _, _),
          ArrayNext(_, _, _), ArrayAt(_, _), ScanObject(_, _, _),
          ObjectAfterKey(_, _, _), ObjectColon(_, _, _, _),
          ObjectAfterValue(_, _, _, _), ObjectNext(_, _, _), ObjectAt(_, _)

(* scan_once: one JSON value starting at index i *)
ScanOnce(s, i) ==
    LET c == At(s, i) IN
    IF c = "\"" THEN StringValue(ScanString(s, i + 1, <<>>))
    ELSE IF c = "{" THEN ObjectAt(s, SkipWs(s, i + 1))
    ELSE IF c = "[" THEN ArrayAt(s, SkipWs(s, i + 1))
    ELSE IF StartsWith(s, i, <<"n", "u", "l", "l">>) THEN Ok(JNull, i + 4)
    ELSE IF StartsWith(s, i, <<"t", "r", "u", "e">>) THEN Ok(JBool(TRUE), i + 4)
    ELSE IF StartsWith(s, i, <<"f", "a", "l", "s", "e">>) THEN Ok(JBool(FALSE), i + 5)
    ELSE NumberOrConstant(s, i, ScanNumber(s, i))

(* JSONArray: j is the index after the bracket and the whitespace *)
ArrayAt(s, j) ==
    IF At(s, j) = "]" THEN Ok(JList(<<>>), j + 1) ELSE ScanArray(s, j, <<>>)

(* i is the index of the next element, acc the elements so far *)
ScanArray(s, i, acc) == ArrayAfterValue(s, acc, ScanOnce(s, i))

ArrayAfterValue(s, acc, r) ==
    IF ~r.ok THEN Bad(r.end)
    ELSE ArrayNext(s, Append(acc, r.val), SkipWs(s, r.end))

ArrayNext(s, xs, j) ==
    IF At(s, j) = "]" THEN Ok(JList(xs), j + 1)
    ELSE IF At(s, j) = "," THEN ScanArray(s, SkipWs(s, j + 1), xs)
    ELSE Bad(j)

(* JSONObject: j is the index after the brace and the whitespace *)
ObjectAt(s, j) ==
    IF At(s, j) = "}" THEN Ok(JDict(<<>>), j + 1) ELSE ScanObject(s, j, <<>>)

(* i is the index of the next key's quote, acc the pairs so far *)
ScanObject(s, i, acc) ==
    IF At(s, i) # "\"" THEN Bad(i)
    ELSE ObjectAfterKey(s, acc, ScanString(s, i + 1, <<>>))

ObjectAfterKey(s, acc, k) ==
    IF ~k.ok THEN Bad(k.end) ELSE ObjectColon(s, acc, k.val, SkipWs(s, k.end))

ObjectColon(s, acc, key, c) ==
    IF At(s, c) # ":" THEN Bad(c)
    ELSE ObjectAfterValue(s, acc, key, ScanOnce(s, SkipWs(s, c + 1)))

ObjectAfterValue(s, acc, key, r) ==
    IF ~r.ok THEN Bad(r.end)
    ELSE ObjectNext(s, DictSet(acc, key, r.val), SkipWs(s, r.end))

ObjectNext(s, ps, j) ==
    IF At(s, j) = "}" THEN Ok(JDict(ps), j + 1)
    ELSE IF At(s, j) = "," THEN ScanObject(s, SkipWs(s, j + 1), ps)
    ELSE Bad(j)

(* the value scanned must be followed by whitespace only *)
WholeText(s, r) ==
    IF r.ok /\ SkipWs(s, r.end) = Len(s) + 1 THEN Ok(r.val, r.end) ELSE Bad(r.end)

(* json.loads(s): ok = FALSE stands for json.JSONDecodeError *)
json_loads(s) == WholeText(s, ScanOnce(s, SkipWs(s, 1)))

(***************************************************************************)
(* json.dumps with its default separators ", " and ": ", for the values    *)
(* json.loads gives: the keys of a dict are strings.  A float is written   *)
(* by its literal, which is its repr for the literals in shortest form.    *)
(***************************************************************************)
RECURSIVE IntDigits(_)
IntDigits(n) ==
    IF n < 10 THEN <<Digits[n + 1]>>
    ELSE Append(IntDigits(n \div 10), Digits[(n % 10) + 1])
IntText(n) == IF n < 0 THEN <<"-">> \o IntDigits(0 - n) ELSE IntDigits(n)

(* ESCAPE_DCT of json.encoder *)
EncodeChar(c) ==
    CASE c = "\"" -> <<"\\", "\"">>
      [] c = "\\" -> <<"\\", "\\">>
      [] c = "\n" -> <<"\\", "n">>
      [] c = "\t" -> <<"\\", "t">>
      [] c = "\r" -> <<"\\", "r">>
      [] OTHER -> <<c>>

RECURSIVE EncodeChars(_, _)
EncodeChars(cs, k) ==
    IF k > Len(cs) THEN <<>> ELSE EncodeChar(cs[k]) \o EncodeChars(cs, k + 1)
EncodeString(cs) == <<"\"">> \o EncodeChars(cs, 1) \o <<"\"">>

ItemSeparator(k) == IF k > 1 THEN <<",", " ">> ELSE <<>>

RECURSIVE json_dumps(_), DumpList(_, _), DumpDict(_, _)
DumpList(xs, k) ==
    IF k > Len(xs) THEN <<>>
    ELSE ItemSeparator(k) \o json_dumps(xs[k]) \o DumpList(xs, k + 1)
DumpDict(ps, k) ==
    IF k > Len(ps) THEN <<>>
    ELSE ItemSeparator(k) \o EncodeString(ps[k][1]) \o <<":", " ">>
         \o json_dumps(ps[k][2]) \o DumpDict(ps, k + 1)
json_dumps(obj) ==
    CASE obj.t = "NoneType" -> <<"n", "u", "l", "l">>
      [] obj.t = "bool" ->
            IF obj.v THEN <<"t", "r", "u", "e">> ELSE <<"f", "a", "l", "s", "e">>
      [] obj.t = "int" -> IntText(obj.v)
      [] obj.t = "float" -> obj.v
      [] obj.t = "str" -> EncodeString(obj.v)
      [] obj.t = "list" -> <<"[">> \o DumpList(obj.v, 1) \o <<"]">>
      [] obj.t = "dict" -> <<"{">> \o DumpDict(obj.v, 1) \o <<"}">>

(***************************************************************************)
(* The regular expressions and string methods used by safe_json_loads.     *)
(***************************************************************************)
IndicesOf(s, c) == {k \in 1..Len(s) : s[k] = c}
Min(S) == CHOOSE x \in S : \A y \in S : x <= y
Max(S) == CHOOSE x \in S : \A y \in S : x >= y

(* re.search of an opening brace, anything (newlines included), a closing *)
(* brace: the span from the first opening brace to the last closing brace *)
(* after it; matched = FALSE when there is no such span.                   *)
BraceSpan(s) ==
    LET opens == IndicesOf(s, "{")
        first == Min(opens)
        closes == {k \in IndicesOf(s, "}") : opens # {} /\ k > first}
    IN  IF opens = {} \/ closes = {}
        THEN [matched |-> FALSE, group |-> <<>>]
        ELSE [matched |-> TRUE, group |-> SubSeq(s, first, Max(closes))]

RECURSIVE LineEnd(_, _)
LineEnd(s, i) == IF At(s, i) \in {"", "\n"} THEN i ELSE LineEnd(s, i + 1)

(* re.sub of two slashes and the rest of the line by the empty string *)
RECURSIVE StripComments(_, _, _)
StripComments(s, i, acc) ==
    IF i > Len(s) THEN acc
    ELSE IF s[i] = "/" /\ At(s, i + 1) = "/"
         THEN StripComments(s, LineEnd(s, i + 2), acc)
         ELSE StripComments(s, i + 1, Append(acc, s[i]))

RECURSIVE SkipReWs(_, _)
SkipReWs(s, i) == IF At(s, i) \in ReWhitespace THEN SkipReWs(s, i + 1) ELSE i

(* re.sub of a comma, optional whitespace and a closing bracket or brace *)
(* by the whitespace and the closer                                        *)
RECURSIVE StripTrailingCommas(_, _, _)
StripTrailingCommas(s, i, acc) ==
    IF i > Len(s) THEN acc
    ELSE LET j == SkipReWs(s, i + 1) IN
         IF s[i] = "," /\ At(s, j) \in {"]", "}"}
         THEN StripTrailingCommas(s, j + 1, acc \o SubSeq(s, i + 1, j))
         ELSE StripTrailingCommas(s, i + 1, Append(acc, s[i]))

(* cleaned.strip().endswith(closing brace) *)
RECURSIVE LastNonWs(_, _)
LastNonWs(s, i) ==
    IF i = 0 THEN ""
    ELSE IF s[i] \in ReWhitespace THEN LastNonWs(s, i - 1) ELSE s[i]

EndsWithBrace(s) == LastNonWs(s, Len(s)) = "}"

Count(s, c) == Cardinality(IndicesOf(s, c))

(* best-effort auto-closing of the cleaned candidate *)
AutoClose(cleaned) ==
    LET braced == IF ~EndsWithBrace(cleaned) THEN Append(cleaned, "}") ELSE cleaned
    IN  IF Count(braced, "[") > Count(braced, "]") THEN Append(braced, "]") ELSE braced

(***************************************************************************)
(* safe_json_loads.  The result is the value returned or the exception     *)
(* raised, with the repair steps that were applied to the text.            *)
(***************************************************************************)
Returned(val, repairs) == [ok |-> TRUE, val |-> val, exc |-> "", repairs |-> repairs]
Raised(exc, repairs) == [ok |-> FALSE, val |-> JNull, exc |-> exc, repairs |-> repairs]

Cleaned(group) == StripTrailingCommas(StripComments(group, 1, <<>>), 1, <<>>)

RepairSteps == <<"span", "comments", "commas">>

(* lines 72-76: the parse of the auto-closed candidate *)
ThirdParse(third) ==
    IF third.ok THEN Returned(third.val, Append(RepairSteps, "autoclose"))
    ELSE Raised("JSONDecodeError", Append(RepairSteps, "autoclose"))

(* lines 68-70: the parse of the cleaned candidate *)
SecondParse(cleaned, second) ==
    IF second.ok THEN Returned(second.val, RepairSteps)
    ELSE ThirdParse(json_loads(AutoClose(cleaned)))

CleanedParse(cleaned) == SecondParse(cleaned, json_loads(cleaned))

(* lines 59-65: the brace span and its cleaning *)
SpanParse(match) ==
    IF ~match.matched THEN Raised("ValueError", <<>>)
    ELSE CleanedParse(Cleaned(match.group))

(* lines 56-58: the direct parse *)
DirectParse(response_text, direct) ==
    IF direct.ok THEN Returned(direct.val, <<>>)
    ELSE SpanParse(BraceSpan(response_text))

(* a variant that looks for the brace span before it tries the text as it *)
(* is                                                                      *)
RepairFirst(response_text, match) ==
    IF match.matched THEN SpanParse(match)
    ELSE DirectParse(response_text, json_loads(response_text))

safe_json_loads_RepairFirst(response_text) ==
    RepairFirst(response_text, BraceSpan(response_text))

safe_json_loads(response_text) ==
    DirectParse(response_text, json_loads(response_text))

(***************************************************************************)
(* The keys of a process flow.                                             *)
(***************************************************************************)
K_process_name ==
    <<"p", "r", "o", "c", "e", "s", "s", "_", "n", "a", "m", "e">>
K_process_description ==
    <<"p", "r", "o", "c", "e", "s", "s", "_", "d", "e", "s", "c", "r", "i",
      "p", "t", "i", "o", "n">>
K_source_document ==
    <<"s", "o", "u", "r", "c", "e", "_", "d", "o", "c", "u", "m", "e", "n",
      "t">>
K_document_path ==
    <<"d", "o", "c", "u", "m", "e", "n", "t", "_", "p", "a", "t", "h">>
K_document_relative_path ==
    <<"d", "o", "c", "u", "m", "e", "n", "t", "_", "r", "e", "l", "a", "t",
      "i", "v", "e", "_", "p", "a", "t", "h">>
K_extraction_model ==
    <<"e", "x", "t", "r", "a", "c", "t", "i", "o", "n", "_", "m", "o", "d",
      "e", "l">>
K_steps ==
    <<"s", "t", "e", "p", "s">>
K_roles ==
    <<"r", "o", "l", "e", "s">>
K_tools_systems ==
    <<"t", "o", "o", "l", "s", "_", "s", "y", "s", "t", "e", "m", "s">>
K_compliance_requirements ==
    <<"c", "o", "m", "p", "l", "i", "a", "n", "c", "e", "_", "r", "e", "q",
      "u", "i", "r", "e", "m", "e", "n", "t", "s">>
K_step_number ==
    <<"s", "t", "e", "p", "_", "n", "u", "m", "b", "e", "r">>
K_step_name ==
    <<"s", "t", "e", "p", "_", "n", "a", "m", "e">>
K_description ==
    <<"d", "e", "s", "c", "r", "i", "p", "t", "i", "o", "n">>
K_responsible_role ==
    <<"r", "e", "s", "p", "o", "n", "s", "i", "b", "l", "e", "_", "r", "o",
      "l", "e">>
K_inputs ==
    <<"i", "n", "p", "u", "t", "s">>
K_outputs ==
    <<"o", "u", "t", "p", "u", "t", "s">>
K_decision_points ==
    <<"d", "e", "c", "i", "s", "i", "o", "n", "_", "p", "o", "i", "n", "t", "s">>
K_next_steps ==
    <<"n", "e", "x", "t", "_", "s", "t", "e", "p", "s">>

EmptyStr == JStr(<<>>)
EmptyList == JList(<<>>)

(***************************************************************************)
(* FlowDatabase.insert_process_flow.  A row is [tbl, process_flow_id,      *)
(* data, params]: the parent row carries the flow it was inserted from, a  *)
(* child row the element it was inserted from; params are the values bound *)
(* to the columns of the INSERT after the identifier.                      *)
(***************************************************************************)
Row(tbl, fid, data, params) ==
    [tbl |-> tbl, process_flow_id |-> fid, data |-> data, params |-> params]

(* the values sqlite3 binds as NULL: None and the float NaN *)
NaNLiteral == <<"N", "a", "N">>
BoundAsNull(param) ==
    \/ param.t = "NoneType"
    \/ param.t = "float" /\ param.v = NaNLiteral

(* cursor.execute with parameters: a list or dict cannot be bound, a NULL *)
(* violates NOT NULL on the columns notnull; "" when the INSERT succeeds.  *)
ExecError(params, notnull) ==
    IF \E k \in 1..Len(params) : params[k].t \in {"list", "dict"}
    THEN "ProgrammingError"
    ELSE IF \E k \in notnull : BoundAsNull(params[k])
         THEN "IntegrityError"
         ELSE ""

(* for x in value: the elements of a list, the keys of a dict, the        *)
(* characters of a str; any other value is not iterable.                   *)
IterOf(value) ==
    CASE value.t = "list" -> [ok |-> TRUE, items |-> value.v]
      [] value.t = "dict" ->
            [ok |-> TRUE, items |-> [k \in 1..Len(value.v) |-> JStr(value.v[k][1])]]
      [] value.t = "str" ->
            [ok |-> TRUE, items |-> [k \in 1..Len(value.v) |-> JStr(<<value.v[k]>>)]]
      [] OTHER -> [ok |-> FALSE, items |-> <<>>]

(* the parameters of the INSERT INTO process_steps of a step that is a dict *)
StepParams(step) ==
    <<DictGet(step.v, K_step_number, JInt(0)),
      DictGet(step.v, K_step_name, EmptyStr),
      DictGet(step.v, K_description, EmptyStr),
      DictGet(step.v, K_responsible_role, EmptyStr),
      JStr(json_dumps(DictGet(step.v, K_inputs, EmptyList))),
      JStr(json_dumps(DictGet(step.v, K_outputs, EmptyList))),
      JStr(json_dumps(DictGet(step.v, K_decision_points, EmptyList))),
      JStr(json_dumps(DictGet(step.v, K_next_steps, EmptyList)))>>

(* the INSERT INTO process_steps of one step *)
StepError(step) ==
    IF step.t # "dict" THEN "AttributeError"
    ELSE ExecError(StepParams(step), {1, 2})

ItemParams(tbl, item) ==
    IF tbl = "process_steps" THEN StepParams(item) ELSE <<item>>

ItemError(tbl, item) ==
    IF tbl = "process_steps" THEN StepError(item) ELSE ExecError(<<item>>, {1})

Done(rows) == [ok |-> TRUE, exc |-> "", rows |-> rows]
Fail(exc, rows) == [ok |-> FALSE, exc |-> exc, rows |-> rows]

(* one for-loop of child INSERTs, from element k on; rows are the rows    *)
(* inserted by the call so far                                             *)
RECURSIVE InsertItems(_, _, _, _, _)
InsertItems(tbl, fid, items, k, rows) ==
    IF k > Len(items) THEN Done(rows)
    ELSE IF ItemError(tbl, items[k]) # "" THEN Fail(ItemError(tbl, items[k]), rows)
    ELSE InsertItems(tbl, fid, items, k + 1,
                     Append(rows, Row(tbl, fid, items[k], ItemParams(tbl, items[k]))))

InsertChildren(tbl, fid, value, rows) ==
    IF ~IterOf(value).ok THEN Fail("TypeError", rows)
    ELSE InsertItems(tbl, fid, IterOf(value).items, 1, rows)

ChildTables ==
    <<"process_steps", "process_roles", "process_tools", "compliance_requirements">>
ChildKey(tbl) ==
    CASE tbl = "process_steps" -> K_steps
      [] tbl = "process_roles" -> K_roles
      [] tbl = "process_tools" -> K_tools_systems
      [] tbl = "compliance_requirements" -> K_compliance_requirements

RECURSIVE InsertTables(_, _, _, _)
InsertTables(process_flow, fid, n, rows) ==
    IF n > Len(ChildTables) THEN Done(rows)
    ELSE LET r == InsertChildren(ChildTables[n], fid,
                      DictGet(process_flow.v, ChildKey(ChildTables[n]), EmptyList), rows)
         IN  IF r.ok THEN InsertTables(process_flow, fid, n + 1, r.rows) ELSE r

(* the parameters of the INSERT INTO process_flows; the last is raw_data *)
FlowParams(process_flow) ==
    <<DictGet(process_flow.v, K_process_name, EmptyStr),
      DictGet(process_flow.v, K_process_description, EmptyStr),
      DictGet(process_flow.v, K_source_document, EmptyStr),
      DictGet(process_flow.v, K_document_path, EmptyStr),
      DictGet(process_flow.v, K_document_relative_path, EmptyStr),
      DictGet(process_flow.v, K_extraction_model, EmptyStr),
      JStr(json_dumps(process_flow))>>
raw_data == 7

(* the statements of insert_process_flow before self.conn.commit(): the   *)
(* rows they insert and the exception that ends them, if any              *)
insert_process_flow(process_flow, process_flow_id) ==
    LET parentError == ExecError(FlowParams(process_flow), {1, 3})
    IN  IF parentError # "" THEN Fail(parentError, <<>>)
        ELSE InsertTables(process_flow, process_flow_id, 1,
                          <<Row("process_flows", process_flow_id, process_flow,
                                FlowParams(process_flow))>>)

(***************************************************************************)
(* Provider responses of the batch runs.                                   *)
(***************************************************************************)
RespClean ==
    <<"{", "\"", "p", "r", "o", "c", "e", "s", "s", "_", "n", "a", "m",
      "e", "\"", ":", "\"", "p", "\"", ",", "\"", "s", "t", "e", "p", "s",
      "\"", ":", "[", "{", "\"", "s", "t", "e", "p", "_", "n", "u", "m",
      "b", "e", "r", "\"", ":", "1", ",", "\"", "s", "t", "e", "p", "_",
      "n", "a", "m", "e", "\"", ":", "\"", "s", "\"", "}", "]", ",", "\"",
      "r", "o", "l", "e", "s", "\"", ":", "[", "\"", "r", "\"", "]", "}">>
RespSpoof ==
    <<"{", "\"", "p", "r", "o", "c", "e", "s", "s", "_", "n", "a", "m",
      "e", "\"", ":", "\"", "p", "\"", ",", "\"", "s", "o", "u", "r", "c",
      "e", "_", "d", "o", "c", "u", "m", "e", "n", "t", "\"", ":", "\"",
      "x", "\"", ",", "\"", "e", "x", "t", "r", "a", "c", "t", "i", "o",
      "n", "_", "m", "o", "d", "e", "l", "\"", ":", "\"", "y", "\"", "}">>
RespProse ==
    <<"S", "u", "r", "e", ":", " ", "{", "\"", "p", "r", "o", "c", "e",
      "s", "s", "_", "n", "a", "m", "e", "\"", ":", "\"", "p", "\"", ",",
      "}", " ", "o", "k">>
RespBadStep ==
    <<"{", "\"", "p", "r", "o", "c", "e", "s", "s", "_", "n", "a", "m",
      "e", "\"", ":", "\"", "p", "\"", ",", "\"", "s", "t", "e", "p", "s",
      "\"", ":", "[", "1", "]", "}">>
RespBadRole ==
    <<"{", "\"", "p", "r", "o", "c", "e", "s", "s", "_", "n", "a", "m",
      "e", "\"", ":", "\"", "p", "\"", ",", "\"", "s", "t", "e", "p", "s",
      "\"", ":", "[", "{", "\"", "s", "t", "e", "p", "_", "n", "u", "m",
      "b", "e", "r", "\"", ":", "1", ",", "\"", "s", "t", "e", "p", "_",
      "n", "a", "m", "e", "\"", ":", "\"", "s", "\"", "}", "]", ",", "\"",
      "r", "o", "l", "e", "s", "\"", ":", "[", "n", "u", "l", "l", "]", "}">>
RespNullName ==
    <<"{", "\"", "p", "r", "o", "c", "e", "s", "s", "_", "n", "a", "m",
      "e", "\"", ":", "n", "u", "l", "l", "}">>
RespList ==
    <<"[", "1", "]">>
RespNoJson ==
    <<"n", "o", " ", "j", "s", "o", "n">>
RespBroken ==
    <<"{", "x", "}">>
RespEmpty ==
    <<"{", "}">>
RespDangling ==
    <<"{", "\"", "p", "r", "o", "c", "e", "s", "s", "_", "n", "a", "m",
      "e", "\"", ":", "\"", "p", "\"", ",", "\"", "s", "t", "e", "p", "s",
      "\"", ":", "[", "{", "\"", "s", "t", "e", "p", "_", "n", "u", "m",
      "b", "e", "r", "\"", ":", "1", ",", "\"", "s", "t", "e", "p", "_",
      "n", "a", "m", "e", "\"", ":", "\"", "s", "\"", ",", "\"", "n", "e",
      "x", "t", "_", "s", "t", "e", "p", "s", "\"", ":", "[", "2", ",",
      "7", "]", "}", "]", "}">>
RespNullSteps ==
    <<"{", "\"", "p", "r", "o", "c", "e", "s", "s", "_", "n", "a", "m",
      "e", "\"", ":", "\"", "p", "\"", ",", "\"", "s", "t", "e", "p", "s",
      "\"", ":", "n", "u", "l", "l", "}">>

Responses ==
    {RespClean, RespSpoof, RespProse, RespBadStep, RespBadRole, RespNullName,
     RespList, RespNoJson, RespBroken, RespEmpty, RespDangling, RespNullSteps}
TransportErrors == {"Timeout", "HTTPError"}
(* response.json() on a body that is not JSON: the JSONDecodeError of      *)
(* requests, a RequestException and a json.JSONDecodeError                 *)
BodyError == "RequestsJSONDecodeError"
ProviderErrors == TransportErrors \cup {BodyError}

(***************************************************************************)
(* Raw texts given to safe_json_loads on its own: every text over Alphabet *)
(* of at most MaxLen characters and the texts below, each between a prose  *)
(* prefix and a prose suffix.                                              *)
(***************************************************************************)
Alphabet == {"{", "}", "[", "]", ",", ":", "\"", "/", "1"}
ShortTexts == UNION {[1..n -> Alphabet] : n \in 0..MaxLen}
BodyObject ==
    <<"{", "\"", "a", "\"", ":", "1", "}">>
BodyNested ==
    <<"[", "{", "\"", "a", "\"", ":", "1", "}", "]">>
BodyComment ==
    <<"{", "\"", "a", "\"", ":", "1", " ", "/", "/", " ", "c", "\n", "}">>
BodyTrailingComma ==
    <<"{", "\"", "a", "\"", ":", "[", "1", ",", "2", ",", "]", "}">>
BodyUrl ==
    <<"{", "\"", "a", "\"", ":", "\"", "/", "/", "\"", "}">>
BodyCommaInString ==
    <<"{", "\"", "a", "\"", ":", "\"", ",", "}", "\"", "}">>
BodyTruncated ==
    <<"{", "\"", "a", "\"", ":", "[", "1", ",", "2">>
BodyNull ==
    <<"n", "u", "l", "l">>
BodyString ==
    <<"\"", "a", "\"">>
BodyAutoClose ==
    <<"{", "\"", "a", "\"", ":", "1", " ", "/", "/", "}">>
BodyTrailingCommaList ==
    <<"[", "1", ",", "]">>
BodyTrailingCommaObject ==
    <<"{", "\"", "a", "\"", ":", "1", ",", "}">>
BodyTrailingCommaString ==
    <<"{", "\"", "a", "\"", ":", "\"", ",", "}", "\"", ",", "}">>

Bodies ==
    ShortTexts \cup
    {BodyObject, BodyNested, BodyComment, BodyTrailingComma, BodyUrl,
     BodyCommaInString, BodyTruncated, BodyNull, BodyString, BodyAutoClose,
     BodyTrailingCommaList, BodyTrailingCommaObject, BodyTrailingCommaString}
Prose == {<<>>, <<"x">>, <<"o", "k", " ">>}

NotCalled == [ok |-> FALSE, val |-> JNull, exc |-> "not called", repairs |-> <<>>]
NoConfig ==
    [provider |-> "", api_key |-> "", api_base_url |-> "", OPENAI_API_KEY |-> "",
     ANTHROPIC_API_KEY |-> "", openai_available |-> FALSE,
     anthropic_available |-> FALSE, requests_available |-> FALSE,
     prompt_file |-> "", custom_prompt |-> <<>>]
NotConstructed ==
    [ok |-> FALSE, exc |-> "not constructed", provider |-> "", api_key |-> "",
     api_base_url |-> "", prompt_template |-> <<>>]
NoRequest == [provider |-> "", url |-> "", timeout |-> 0]
NoReply == [ok |-> FALSE, val |-> JNull, exc |-> "no reply", warnings |-> 0]
NotLoaded ==
    [called |-> FALSE, process_flow_id |-> 0, val |-> JNull, after |-> 0,
     exc |-> ""]

(***************************************************************************)
(* Exceptions: the classes an exception is an instance of.                 *)
(***************************************************************************)
Mro(exc) ==
    CASE exc = "JSONDecodeError" -> {"JSONDecodeError", "ValueError", "Exception"}
      [] exc = "ValueError" -> {"ValueError", "Exception"}
      [] exc \in TransportErrors -> {exc, "RequestException", "OSError", "Exception"}
      [] exc = BodyError ->
            {exc, "JSONDecodeError", "RequestException", "OSError", "ValueError",
             "Exception"}
      [] exc \in {"IntegrityError", "ProgrammingError"} ->
            {exc, "DatabaseError", "Error", "Exception"}
      [] OTHER -> {exc, "Exception"}

Catches(cls, exc) == cls \in Mro(exc)

(***************************************************************************)
(* FlowExtractor.extract_process_flow and extract_from_documents.          *)
(***************************************************************************)
max_content_length == 20000
prompt_template == <<"T">>
model == <<"m">>
PromptHeader ==
    <<"\n", "\n", "-", "-", "-", " ", "D", "o", "c", "u", "m", "e", "n",
      "t", ":", " ">>
PromptFooter == <<" ", "-", "-", "-", "\n", "\n">>

Doc(k) ==
    [name |-> <<"d", Digits[k + 1]>>,
     content |-> <<"c", Digits[k + 1]>>,
     path |-> <<"/", "d", Digits[k + 1]>>,
     relative_path |-> <<"d", Digits[k + 1]>>]
Batch(n) == [k \in 1..n |-> Doc(k)]

(* a variant that keeps the last max_content_length characters *)
Truncated_Last(document_content) ==
    IF Len(document_content) > max_content_length
    THEN SubSeq(document_content,
                Len(document_content) - max_content_length + 1,
                Len(document_content))
    ELSE document_content

(* document_content[:max_content_length] when it is too long *)
Truncated(document_content) ==
    IF Len(document_content) > max_content_length
    THEN SubSeq(document_content, 1, max_content_length)
    ELSE document_content

BuildPromptText(prompt_text, document_name, document_content) ==
    prompt_text \o PromptHeader \o document_name \o PromptFooter
                \o Truncated(document_content)

(* logger.warning of lines 304-308: one record when the content is longer *)
(* than max_content_length, none otherwise                                 *)
WarningRecord(logger, chars) ==
    [logger |-> logger, doc |-> <<>>, exc |-> "", level |-> "WARNING",
     chars |-> chars]
TruncationWarnings(document_content) ==
    IF Len(document_content) > max_content_length
    THEN <<WarningRecord("extract_process_flow", Len(document_content))>>
    ELSE <<>>

(* one more provider call made for the document d *)
ProviderCalled(count, d) == [count EXCEPT ![d] = @ + 1]

(* a variant that keeps a source_document and an extraction_model the     *)
(* recovered object already has (dict.setdefault)                          *)
AddMetadata_SetDefault(process_flow, document_name) ==
    JDict(DictSet(DictSet(process_flow.v, K_source_document,
                          DictGet(process_flow.v, K_source_document,
                                  JStr(document_name))),
                  K_extraction_model,
                  DictGet(process_flow.v, K_extraction_model, JStr(model))))

(* process_flow['source_document'] = document_name; *)
(* process_flow['extraction_model'] = self.model    *)
AddMetadata(process_flow, document_name) ==
    JDict(DictSet(DictSet(process_flow.v, K_source_document, JStr(document_name)),
                  K_extraction_model, JStr(model)))

(* process_flow['document_path'] = doc['path'];                          *)
(* process_flow['document_relative_path'] = doc.get('relative_path', '') *)
AddDocumentPaths(process_flow, doc) ==
    JDict(DictSet(DictSet(process_flow.v, K_document_path, JStr(doc.path)),
                  K_document_relative_path, JStr(doc.relative_path)))

LogRecord(logger, doc, exc) ==
    [logger |-> logger, doc |-> doc, exc |-> exc, level |-> "ERROR"]

(* the except clauses of extract_process_flow: the records they log and   *)
(* the exception they raise.  The clause for JSONDecodeError reads         *)
(* response_text for its second record: when the exception came from the   *)
(* provider call the name is not bound, and UnboundLocalError leaves the   *)
(* method after the first record.                                          *)
ExtractProcessFlowExcept(exc, bound) ==
    IF Catches("JSONDecodeError", exc)
    THEN IF bound
         THEN [log |-> <<LogRecord("extract_process_flow", <<>>, exc),
                         LogRecord("extract_process_flow", <<>>, exc)>>,
               exc |-> "ValueError"]
         ELSE [log |-> <<LogRecord("extract_process_flow", <<>>, exc)>>,
               exc |-> "UnboundLocalError"]
    ELSE [log |-> <<LogRecord("extract_process_flow", <<>>, exc)>>, exc |-> exc]

(* a variant of the handler of extract_from_documents that catches        *)
(* ValueError only                                                         *)
ExtractFromDocumentsCatches_ValueErrorOnly(exc) == Catches("ValueError", exc)

(* except Exception in extract_from_documents and in insert_multiple *)
ExtractFromDocumentsCatches(exc) == Catches("Exception", exc)
InsertMultipleCatches(exc) == Catches("Exception", exc)

(* a variant that tries the same element again after a failure *)
AfterContinue_Retry(index) == index

(* continue: the loop goes on with the next document *)
AfterContinue(index) == index + 1

(* a variant that puts the new identifier first *)
IdsAppend_Prepend(idlist, flow_id) == <<flow_id>> \o idlist

(* ids.append(flow_id) *)
IdsAppend(idlist, flow_id) == Append(idlist, flow_id)

RowsFor(rows, fid) == SelectSeq(rows, LAMBDA r : r.process_flow_id = fid)

(* lines 151-168: the rows the loop over the steps of a flow inserts into *)
(* process_steps, up to the first step whose INSERT raises, and the step   *)
(* numbers bound to them: step.get('step_number', 0)                       *)
StepRows(flow) ==
    InsertChildren("process_steps", 0, DictGet(flow.v, K_steps, EmptyList),
                   <<>>).rows
StepNumbers(flow) ==
    {StepRows(flow)[k].params[1] : k \in 1..Len(StepRows(flow))}
KeepKnown(flow, step) ==
    IF step.t = "dict" /\ DictGet(step.v, K_next_steps, JNull).t = "list"
    THEN JDict(DictSet(step.v, K_next_steps,
                       JList(SelectSeq(DictGet(step.v, K_next_steps, JNull).v,
                                       LAMBDA n : n \in StepNumbers(flow)))))
    ELSE step
DropDangling(flow) ==
    IF flow.t = "dict" /\ DictGet(flow.v, K_steps, JNull).t = "list"
    THEN JDict(DictSet(flow.v, K_steps,
                       JList([k \in 1..Len(DictGet(flow.v, K_steps, JNull).v) |->
                                KeepKnown(flow, DictGet(flow.v, K_steps, JNull).v[k])])))
    ELSE flow

(* cursor.lastrowid of the parent INSERT: AUTOINCREMENT over the rows     *)
(* inserted so far, committed or not                                       *)
ParentRows(rows) == SelectSeq(rows, LAMBDA r : r.tbl = "process_flows")

(* a variant that gives the identifier of the newest row again *)
LastRowId_Reuse(rows) ==
    IF ParentRows(rows) = <<>> THEN 1 ELSE Len(ParentRows(rows))

LastRowId(rows) == Len(ParentRows(rows)) + 1

(* test.py, lines 24-28: the reads of the driver's print loop on one flow *)
PrintResults(flow) ==
    IF ~DictHas(flow.v, K_source_document) THEN "KeyError"
    ELSE IF ~DictHas(flow.v, K_process_name) THEN "KeyError"
    ELSE IF ~DictHas(flow.v, K_steps) THEN "KeyError"
    ELSE IF DictGet(flow.v, K_steps, JNull).t \notin {"list", "dict", "str"}
         THEN "TypeError"
         ELSE ""

(***************************************************************************)
(* The provider adapters: what _call_custom_api and _call_ollama_api make  *)
(* of the payload response.json() gives.  A reply is [ok, val, exc,        *)
(* warnings]: the value returned or the exception raised, and the number   *)
(* of warnings logged.                                                     *)
(***************************************************************************)
K_choices ==
    <<"c", "h", "o", "i", "c", "e", "s">>
K_message ==
    <<"m", "e", "s", "s", "a", "g", "e">>
K_content ==
    <<"c", "o", "n", "t", "e", "n", "t">>
K_text ==
    <<"t", "e", "x", "t">>
K_response ==
    <<"r", "e", "s", "p", "o", "n", "s", "e">>

Reply(val, warnings) == [ok |-> TRUE, val |-> val, exc |-> "", warnings |-> warnings]
ReplyRaised(exc) == [ok |-> FALSE, val |-> JNull, exc |-> exc, warnings |-> 0]

(* repr of a str: single quotes unless the text has one and no double quote *)
ReprQuote(cs) ==
    IF (\E k \in 1..Len(cs) : cs[k] = "'") /\ ~(\E k \in 1..Len(cs) : cs[k] = "\"")
    THEN "\"" ELSE "'"
ReprChar(c, quote) ==
    CASE c = "\\" -> <<"\\", "\\">>
      [] c = "\n" -> <<"\\", "n">>
      [] c = "\t" -> <<"\\", "t">>
      [] c = "\r" -> <<"\\", "r">>
      [] c = quote -> <<"\\", c>>
      [] OTHER -> <<c>>
RECURSIVE ReprChars(_, _, _)
ReprChars(cs, k, quote) ==
    IF k > Len(cs) THEN <<>>
    ELSE ReprChar(cs[k], quote) \o ReprChars(cs, k + 1, quote)
ReprStr(cs) == <<ReprQuote(cs)>> \o ReprChars(cs, 1, ReprQuote(cs)) \o <<ReprQuote(cs)>>

(* repr of a float: nan, inf and -inf for the constants, else its literal *)
FloatRepr(lit) ==
    CASE lit = <<"N", "a", "N">> -> <<"n", "a", "n">>
      [] lit = <<"I", "n", "f", "i", "n", "i", "t", "y">> -> <<"i", "n", "f">>
      [] lit = <<"-", "I", "n", "f", "i", "n", "i", "t", "y">> -> <<"-", "i", "n", "f">>
      [] OTHER -> lit

(* repr of a value, as str() of a list or a dict shows its elements *)
RECURSIVE py_repr(_), ReprList(_, _), ReprDict(_, _)
ReprList(xs, k) ==
    IF k > Len(xs) THEN <<>>
    ELSE ItemSeparator(k) \o py_repr(xs[k]) \o ReprList(xs, k + 1)
ReprDict(ps, k) ==
    IF k > Len(ps) THEN <<>>
    ELSE ItemSeparator(k) \o ReprStr(ps[k][1]) \o <<":", " ">>
         \o py_repr(ps[k][2]) \o ReprDict(ps, k + 1)
py_repr(obj) ==
    CASE obj.t = "NoneType" -> <<"N", "o", "n", "e">>
      [] obj.t = "bool" ->
            IF obj.v THEN <<"T", "r", "u", "e">> ELSE <<"F", "a", "l", "s", "e">>
      [] obj.t = "int" -> IntText(obj.v)
      [] obj.t = "float" -> FloatRepr(obj.v)
      [] obj.t = "str" -> ReprStr(obj.v)
      [] obj.t = "list" -> <<"[">> \o ReprList(obj.v, 1) \o <<"]">>
      [] obj.t = "dict" -> <<"{">> \o ReprDict(obj.v, 1) \o <<"}">>

(* str(obj) *)
py_str(obj) == IF obj.t = "str" THEN obj.v ELSE py_repr(obj)

(* sub in text, for two str *)
Contains(text, sub) ==
    \E k \in 1..(Len(text) - Len(sub) + 1) : StartsWith(text, k, sub)

(* key in container, for a str key: the truth value, or the TypeError of  *)
(* a value that is no container                                            *)
PyIn(key, container) ==
    CASE container.t = "dict" -> Reply(JBool(DictHas(container.v, key)), 0)
      [] container.t = "list" ->
            Reply(JBool(\E k \in 1..Len(container.v) : container.v[k] = JStr(key)), 0)
      [] container.t = "str" -> Reply(JBool(Contains(container.v, key)), 0)
      [] OTHER -> ReplyRaised("TypeError")
Holds(r) == r.ok /\ r.val.v

(* obj[key] for a str key *)
GetKey(obj, key) ==
    IF obj.t = "dict"
    THEN IF DictHas(obj.v, key) THEN Reply(DictGet(obj.v, key, JNull), 0)
         ELSE ReplyRaised("KeyError")
    ELSE ReplyRaised("TypeError")

(* obj[0] *)
GetFirst(obj) ==
    CASE obj.t = "list" ->
            IF obj.v = <<>> THEN ReplyRaised("IndexError") ELSE Reply(obj.v[1], 0)
      [] obj.t = "str" ->
            IF obj.v = <<>> THEN ReplyRaised("IndexError") ELSE Reply(JStr(<<obj.v[1]>>), 0)
      [] obj.t = "dict" -> ReplyRaised("KeyError")
      [] OTHER -> ReplyRaised("TypeError")

ThenKey(r, key) == IF r.ok THEN GetKey(r.val, key) ELSE r

(* "".join([item.get("text", "") for item in content]) *)
RECURSIVE JoinTexts(_, _)
JoinTexts(items, k) ==
    IF k > Len(items) THEN <<>>
    ELSE DictGet(items[k].v, K_text, EmptyStr).v \o JoinTexts(items, k + 1)
JoinContent(items) ==
    IF \E k \in 1..Len(items) : items[k].t # "dict" THEN ReplyRaised("AttributeError")
    ELSE IF \E k \in 1..Len(items) : DictGet(items[k].v, K_text, EmptyStr).t # "str"
         THEN ReplyRaised("TypeError")
         ELSE Reply(JStr(JoinTexts(items, 1)), 0)

(* lines 468-472: the content branch *)
ContentBranch(response_data) ==
    IF response_data.t # "dict" THEN ReplyRaised("TypeError")
    ELSE IF DictGet(response_data.v, K_content, JNull).t = "list"
         THEN JoinContent(DictGet(response_data.v, K_content, JNull).v)
         ELSE Reply(DictGet(response_data.v, K_content, JNull), 0)

(* lines 476-480: the message branch *)
MessageBranch(response_data) ==
    IF response_data.t # "dict" THEN ReplyRaised("TypeError")
    ELSE IF /\ DictGet(response_data.v, K_message, JNull).t = "dict"
            /\ DictHas(DictGet(response_data.v, K_message, JNull).v, K_content)
         THEN Reply(DictGet(DictGet(response_data.v, K_message, JNull).v, K_content, JNull), 0)
         ELSE Reply(JStr(py_str(DictGet(response_data.v, K_message, JNull))), 0)

(* lines 481-484: the fallback, with its warning *)
FallbackBranch(response_data) ==
    IF response_data.t # "dict" THEN ReplyRaised("AttributeError")
    ELSE Reply(JStr(json_dumps(response_data)), 1)

(* lines 468-484: the branches after the choices branch *)
AfterChoices(response_data) ==
    IF ~PyIn(K_content, response_data).ok THEN PyIn(K_content, response_data)
    ELSE IF Holds(PyIn(K_content, response_data)) THEN ContentBranch(response_data)
    ELSE IF Holds(PyIn(K_text, response_data))
         THEN GetKey(response_data, K_text)
         ELSE IF Holds(PyIn(K_message, response_data))
              THEN MessageBranch(response_data)
              ELSE FallbackBranch(response_data)

(* lines 465-467: the choices branch *)
ChoicesBranch(response_data) ==
    IF response_data.t # "dict" THEN ReplyRaised("TypeError")
    ELSE IF DictGet(response_data.v, K_choices, JNull).t \notin {"list", "dict", "str"}
         THEN ReplyRaised("TypeError")
         ELSE IF Len(DictGet(response_data.v, K_choices, JNull).v) > 0
              THEN ThenKey(ThenKey(GetFirst(DictGet(response_data.v, K_choices, JNull)),
                                   K_message), K_content)
              ELSE AfterChoices(response_data)

(* a variant that looks at the text field before the content field *)
CustomResponseText_TextFirst(response_data) ==
    IF response_data.t = "dict" /\ DictHas(response_data.v, K_text)
    THEN GetKey(response_data, K_text)
    ELSE IF ~PyIn(K_choices, response_data).ok THEN PyIn(K_choices, response_data)
    ELSE IF Holds(PyIn(K_choices, response_data)) THEN ChoicesBranch(response_data)
    ELSE AfterChoices(response_data)

(* _call_custom_api, lines 461-484: the text taken from response.json() *)
CustomResponseText(response_data) ==
    IF ~PyIn(K_choices, response_data).ok THEN PyIn(K_choices, response_data)
    ELSE IF Holds(PyIn(K_choices, response_data)) THEN ChoicesBranch(response_data)
    ELSE AfterChoices(response_data)

(* _call_ollama_api, lines 269-270: data.get("response", "") *)
OllamaResponseText(data) ==
    IF data.t # "dict" THEN ReplyRaised("AttributeError")
    ELSE Reply(DictGet(data.v, K_response, EmptyStr), 0)

(***************************************************************************)
(* FlowExtractor.__init__.  In a configuration "" stands for an argument   *)
(* or environment variable that is None or empty.                          *)
(***************************************************************************)
Providers == {"openai", "anthropic", "ollama", "custom"}

(* The prompt_file arguments: none, the file of the driver, a path where   *)
(* nothing is, and a path that is there and cannot be read as a text (a    *)
(* directory).                                                             *)
PromptFileNames == {"", "prompt_text.txt", "missing.txt", "prompts"}
PathExists(prompt_file) == prompt_file \in {"prompt_text.txt", "prompts"}
default_prompt == <<"D">>
ProviderNames == Providers \cup {"OpenAI", "gemini"}
Configs ==
    [provider : ProviderNames,
     api_key : {"", "k"},
     api_base_url : {"", "u"},
     OPENAI_API_KEY : {"", "e"},
     ANTHROPIC_API_KEY : {"", "a"},
     openai_available : BOOLEAN,
     anthropic_available : BOOLEAN,
     requests_available : BOOLEAN,
     prompt_file : PromptFileNames,
     custom_prompt : {<<>>, <<"C">>}]

(* provider.lower() *)
Lower(name) == IF name = "OpenAI" THEN "openai" ELSE name

(* a or b *)
PyOr(a, b) == IF a # "" THEN a ELSE b

OllamaDefaultUrl == "http://localhost:11434/v1/chat/completions"

Constructed(provider, api_key, api_base_url) ==
    [ok |-> TRUE, exc |-> "", provider |-> provider, api_key |-> api_key,
     api_base_url |-> api_base_url, prompt_template |-> <<>>]
InitRaised(exc) ==
    [ok |-> FALSE, exc |-> exc, provider |-> "", api_key |-> "", api_base_url |-> "",
     prompt_template |-> <<>>]

(* _load_prompt_from_file, lines 240-252: the text of the file, or the     *)
(* FileNotFoundError of line 243, or the error of open() or read(), which  *)
(* is logged and raised again                                              *)
LoadPromptFromFile(prompt_file) ==
    IF ~PathExists(prompt_file)
    THEN [ok |-> FALSE, exc |-> "FileNotFoundError", text |-> <<>>, log |-> <<>>]
    ELSE IF prompt_file = "prompts"
    THEN [ok |-> FALSE, exc |-> "IsADirectoryError", text |-> <<>>,
          log |-> <<LogRecord("_load_prompt_from_file", <<>>, "IsADirectoryError")>>]
    ELSE [ok |-> TRUE, exc |-> "", text |-> prompt_template, log |-> <<>>]

(* lines 154-158: self.prompt_template *)
PromptTemplateOf(config) ==
    IF config.prompt_file # "" THEN LoadPromptFromFile(config.prompt_file)
    ELSE [ok |-> TRUE, exc |-> "",
          text |-> IF config.custom_prompt # <<>> THEN config.custom_prompt
                   ELSE default_prompt,
          log |-> <<>>]

(* lines 161-174 *)
InitOpenAI(config) ==
    IF ~config.openai_available THEN InitRaised("ImportError")
    ELSE IF PyOr(config.api_key, config.OPENAI_API_KEY) = "" THEN InitRaised("ValueError")
    ELSE Constructed("openai", PyOr(config.api_key, config.OPENAI_API_KEY),
                     config.api_base_url)

(* lines 176-189 *)
InitAnthropic(config) ==
    IF ~config.anthropic_available THEN InitRaised("ImportError")
    ELSE IF PyOr(config.api_key, config.ANTHROPIC_API_KEY) = "" THEN InitRaised("ValueError")
    ELSE Constructed("anthropic", PyOr(config.api_key, config.ANTHROPIC_API_KEY),
                     config.api_base_url)

(* lines 191-198 *)
InitOllama(config) ==
    IF ~config.requests_available THEN InitRaised("ImportError")
    ELSE Constructed("ollama", PyOr(config.api_key, "none"),
                     PyOr(config.api_base_url, OllamaDefaultUrl))

(* a variant of the custom branch without the check of api_base_url *)
InitCustom_NoUrlCheck(config) ==
    IF ~config.requests_available THEN InitRaised("ImportError")
    ELSE IF config.api_key = "" THEN InitRaised("ValueError")
    ELSE Constructed("custom", config.api_key, config.api_base_url)

(* lines 200-213 *)
InitCustom(config) ==
    IF ~config.requests_available THEN InitRaised("ImportError")
    ELSE IF config.api_base_url = "" THEN InitRaised("ValueError")
    ELSE IF config.api_key = "" THEN InitRaised("ValueError")
    ELSE Constructed("custom", config.api_key, config.api_base_url)

(* lines 160-217: the provider-specific part of __init__ *)
InitProvider(config) ==
    CASE Lower(config.provider) = "openai" -> InitOpenAI(config)
      [] Lower(config.provider) = "anthropic" -> InitAnthropic(config)
      [] Lower(config.provider) = "ollama" -> InitOllama(config)
      [] Lower(config.provider) = "custom" -> InitCustom(config)
      [] OTHER -> InitRaised("ValueError")

(* self.prompt_template = tpl on the instance the provider part leaves *)
WithTemplate(r, tpl) == IF r.ok THEN [r EXCEPT !.prompt_template = tpl] ELSE r

(* lines 147-217: the prompt template is set before the provider is       *)
(* looked at, so that an error of the prompt file comes first              *)
FlowExtractorInit(config) ==
    IF ~PromptTemplateOf(config).ok THEN InitRaised(PromptTemplateOf(config).exc)
    ELSE WithTemplate(InitProvider(config), PromptTemplateOf(config).text)

(***************************************************************************)
(* The provider calls.  A request is [provider, url, timeout]; NoTimeout   *)
(* is a call made without a timeout argument.                              *)
(***************************************************************************)
NoTimeout == 0
OllamaTimeout == 120
CustomTimeout == 60
OllamaGenerateUrl == "http://localhost:11434/api/generate"

Request(provider, url, timeout) ==
    [provider |-> provider, url |-> url, timeout |-> timeout]

(* the call each _call_*_api makes for an extractor *)
RequestOf(ext) ==
    CASE ext.provider = "openai" -> Request("openai", "", NoTimeout)
      [] ext.provider = "anthropic" -> Request("anthropic", "", NoTimeout)
      [] ext.provider = "ollama" -> Request("ollama", OllamaGenerateUrl, OllamaTimeout)
      [] ext.provider = "custom" -> Request("custom", ext.api_base_url, CustomTimeout)

(* the failures a call can end with: a requests call with a timeout can   *)
(* time out, its answer can have a status of error or a body that is not   *)
(* JSON; any call can fail with the error of its library                   *)
FailuresOf(req) ==
    IF req.provider \in {"ollama", "custom"}
    THEN IF req.timeout # NoTimeout THEN {"Timeout", "HTTPError", BodyError}
         ELSE {"HTTPError", BodyError}
    ELSE {"APIError"}

(* lines 486-491: the records _call_custom_api logs before it raises the  *)
(* RequestException again: the message and, for an exception that has a    *)
(* response, its status and its body; the other methods log nothing        *)
FailureLog(provider, exc) ==
    IF provider = "custom" /\ Catches("RequestException", exc)
    THEN IF exc = "HTTPError"
         THEN <<LogRecord("_call_custom_api", <<>>, exc),
                LogRecord("_call_custom_api", <<>>, exc),
                LogRecord("_call_custom_api", <<>>, exc)>>
         ELSE <<LogRecord("_call_custom_api", <<>>, exc)>>
    ELSE <<>>

(* _call_openai_api, line 374: response.choices[0].message.content *)
OpenAIResponseText(response) ==
    ThenKey(ThenKey(GetFirst(DictGet(response.v, K_choices, EmptyList)), K_message),
            K_content)

(* _call_anthropic_api, lines 403-411: the texts of the blocks that have  *)
(* one, concatenated                                                       *)
RECURSIVE BlockTexts(_, _)
BlockTexts(blocks, k) ==
    IF k > Len(blocks) THEN <<>>
    ELSE (IF blocks[k].t = "dict" /\ DictHas(blocks[k].v, K_text)
          THEN DictGet(blocks[k].v, K_text, EmptyStr).v
          ELSE IF blocks[k].t = "str" THEN blocks[k].v ELSE <<>>)
         \o BlockTexts(blocks, k + 1)
AnthropicResponseText(response) ==
    Reply(JStr(BlockTexts(DictGet(response.v, K_content, EmptyList).v, 1)), 0)

ResponseText(provider, response) ==
    CASE provider = "openai" -> OpenAIResponseText(response)
      [] provider = "anthropic" -> AnthropicResponseText(response)
      [] provider = "ollama" -> OllamaResponseText(response)
      [] provider = "custom" -> CustomResponseText(response)

(***************************************************************************)
(* An extractor on its own: its construction and one provider call.  The   *)
(* payloads are what response.json() may give for the requests adapters    *)
(* and the response objects of the client libraries for the others.        *)
(***************************************************************************)
PayloadChoices ==
    JDict(<<<<<<"c", "h", "o", "i", "c", "e", "s">>, JList(<<JDict(<<<<<<"m", "e", "s", "s", "a", "g", "e">>, JDict(<<<<<<"c", "o", "n", "t", "e", "n", "t">>, JStr(<<"A">>)>>>>)>>>>)>>)>>>>)
PayloadChoicesAndOthers ==
    JDict(<<<<<<"c", "h", "o", "i", "c", "e", "s">>, JList(<<JDict(<<<<<<"m", "e", "s", "s", "a", "g", "e">>, JDict(<<<<<<"c", "o", "n", "t", "e", "n", "t">>, JStr(<<"A">>)>>>>)>>>>)>>)>>, <<<<"r", "e", "s", "p", "o", "n", "s", "e">>, JStr(<<"B">>)>>, <<<<"c", "o", "n", "t", "e", "n", "t">>, JStr(<<"C">>)>>>>)
PayloadBlocks ==
    JDict(<<<<<<"c", "o", "n", "t", "e", "n", "t">>, JList(<<JDict(<<<<<<"t", "e", "x", "t">>, JStr(<<"A">>)>>>>), JDict(<<<<<<"t", "e", "x", "t">>, JStr(<<"B">>)>>>>)>>)>>>>)
PayloadResponse ==
    JDict(<<<<<<"r", "e", "s", "p", "o", "n", "s", "e">>, JStr(<<"A">>)>>>>)
PayloadResponseAndText ==
    JDict(<<<<<<"r", "e", "s", "p", "o", "n", "s", "e">>, JStr(<<"A">>)>>, <<<<"t", "e", "x", "t">>, JStr(<<"B">>)>>>>)
PayloadContentAndText ==
    JDict(<<<<<<"c", "o", "n", "t", "e", "n", "t">>, JStr(<<"A">>)>>, <<<<"t", "e", "x", "t">>, JStr(<<"B">>)>>>>)
PayloadTextAndMessage ==
    JDict(<<<<<<"t", "e", "x", "t">>, JStr(<<"A">>)>>, <<<<"m", "e", "s", "s", "a", "g", "e">>, JDict(<<<<<<"c", "o", "n", "t", "e", "n", "t">>, JStr(<<"B">>)>>>>)>>>>)
PayloadMessageContent ==
    JDict(<<<<<<"m", "e", "s", "s", "a", "g", "e">>, JDict(<<<<<<"c", "o", "n", "t", "e", "n", "t">>, JStr(<<"A">>)>>>>)>>>>)
PayloadMessageDict ==
    JDict(<<<<<<"m", "e", "s", "s", "a", "g", "e">>, JDict(<<<<<<"r", "o", "l", "e">>, JStr(<<"x">>)>>>>)>>>>)
PayloadMessageStr ==
    JDict(<<<<<<"m", "e", "s", "s", "a", "g", "e">>, JStr(<<"h", "i">>)>>>>)
PayloadUnknown ==
    JDict(<<<<<<"x">>, JInt(1)>>>>)
PayloadEmptyDict ==
    JDict(<<>>)
PayloadList ==
    JList(<<>>)
PayloadNoChoices ==
    JDict(<<<<<<"c", "h", "o", "i", "c", "e", "s">>, JList(<<>>)>>>>)
PayloadChoiceWithoutMessage ==
    JDict(<<<<<<"c", "h", "o", "i", "c", "e", "s">>, JList(<<JDict(<<>>)>>)>>>>)
PayloadNoChoicesButText ==
    JDict(<<<<<<"c", "h", "o", "i", "c", "e", "s">>, JList(<<>>)>>, <<<<"t", "e", "x", "t">>, JStr(<<"A">>)>>>>)
PayloadStr ==
    JStr(<<"h", "i">>)
PayloadBadBlock ==
    JDict(<<<<<<"c", "o", "n", "t", "e", "n", "t">>, JList(<<JInt(1)>>)>>>>)
PayloadInt ==
    JInt(1)
PayloadMessageFloats ==
    JDict(<<<<<<"m", "e", "s", "s", "a", "g", "e">>,
             JList(<<JFloat(NaNLiteral),
                     JFloat(<<"I", "n", "f", "i", "n", "i", "t", "y">>)>>)>>>>)
Payloads ==
    {PayloadChoices, PayloadChoicesAndOthers, PayloadBlocks,
     PayloadResponse, PayloadResponseAndText, PayloadContentAndText,
     PayloadTextAndMessage, PayloadMessageContent, PayloadMessageDict,
     PayloadMessageStr, PayloadUnknown, PayloadEmptyDict,
     PayloadList, PayloadNoChoices, PayloadChoiceWithoutMessage,
     PayloadNoChoicesButText, PayloadStr, PayloadBadBlock,
     PayloadInt, PayloadMessageFloats}
OpenAIResponses ==
    {PayloadChoices, PayloadNoChoices,
     JDict(<<<<K_choices, JList(<<JDict(<<<<K_message, JDict(<<<<K_content, JNull>>>>)>>>>)>>)>>>>)}
AnthropicResponses ==
    {PayloadBlocks, JDict(<<<<K_content, EmptyList>>>>),
     JDict(<<<<K_content, JList(<<JDict(<<<<K_text, JStr(<<"A">>)>>>>),
                                  JDict(<<<<<<"t", "y", "p", "e">>, JStr(<<"x">>)>>>>)>>)>>>>)}
PayloadsFor(provider) ==
    CASE provider = "openai" -> OpenAIResponses
      [] provider = "anthropic" -> AnthropicResponses
      [] OTHER -> Payloads

(***************************************************************************)
(* State.                                                                  *)
(*   documents        the batch given to extract_from_documents            *)
(*   phase            the batch call in progress                           *)
(*   i, at            the document of the extraction loop and the position *)
(*                    of extract_process_flow in it                        *)
(*   prompt, response_text, process_flow     locals of extract_process_flow *)
(*   extracted_flows  the list extract_from_documents builds and returns   *)
(*   origin           origin[k] is the document extracted_flows[k] is from *)
(*   j, ids           the flow of the insert_multiple loop and its result  *)
(*   committed        the rows in durable storage                          *)
(*   pending          the rows of the connection's open transaction        *)
(*   conn             whether the connection of the database is open        *)
(*   log              the warning and error records written to the logger  *)
(*   stage            the pipeline stage of each document                  *)
(*   failed_stage     the stage a failed document did not reach            *)
(*   recovered        what safe_json_loads returned for each document      *)
(*   prefix, body, suffix, result    a call of safe_json_loads on its own  *)
(*   calls            the direct calls of insert_process_flow so far       *)
(*   loaded           the last call of get_process_flow, its result and    *)
(*                    the number of calls of insert_process_flow before it *)
(*   config           the arguments and environment of FlowExtractor(...)  *)
(*   extractor        the extractor constructed, or the exception raised   *)
(*   request          the provider call in flight or over                  *)
(*   payload          the response of the provider, when one arrived       *)
(*   reply            what the _call_*_api method returned or raised       *)
(*   template         self.prompt_template of the extractor                *)
(*   sends            sends[d] is the number of provider calls made for    *)
(*                    the document d                                       *)
(***************************************************************************)
VARIABLES documents, phase, i, at, prompt, response_text, process_flow,
          extracted_flows, origin, j, ids, committed, pending, log,
          stage, failed_stage, recovered, prefix, body, suffix, result,
          calls, loaded, config, extractor, request, payload, reply,
          template, sends, conn

vars == <<documents, phase, i, at, prompt, response_text, process_flow,
          extracted_flows, origin, j, ids, committed, pending, log,
          stage, failed_stage, recovered, prefix, body, suffix, result,
          calls, loaded, config, extractor, request, payload, reply,
          template, sends, conn>>

locals == <<prompt, response_text, process_flow>>
database == <<committed, pending, conn>>
loads_vars == <<prefix, body, suffix, result>>
save_vars == <<calls, loaded>>
adapter_vars == <<config, extractor, request, payload, reply>>

AdapterIdle ==
    /\ config = NoConfig
    /\ extractor = NotConstructed
    /\ request = NoRequest
    /\ payload = JNull
    /\ reply = NoReply

PipelineInit(batch) ==
    /\ documents = batch
    /\ phase = "extract_from_documents"
    /\ i = 1
    /\ at = "prompt"
    /\ prompt = <<>>
    /\ response_text = JNull
    /\ process_flow = JNull
    /\ extracted_flows = <<>>
    /\ origin = <<>>
    /\ j = 1
    /\ ids = <<>>
    /\ committed = <<>>
    /\ pending = <<>>
    /\ log = <<>>
    /\ stage = [d \in 1..Len(batch) |-> "Pending"]
    /\ failed_stage = [d \in 1..Len(batch) |-> "None"]
    /\ recovered = [d \in 1..Len(batch) |-> JNull]
    /\ sends = [d \in 1..Len(batch) |-> 0]
    /\ conn = "open"

Init ==
    /\ \E n \in 0..MaxDocs : PipelineInit(Batch(n))
    /\ template = prompt_template
    /\ prefix = <<>>
    /\ body = <<>>
    /\ suffix = <<>>
    /\ result = NotCalled
    /\ calls = <<>>
    /\ loaded = NotLoaded
    /\ AdapterIdle

InLoop == phase = "extract_from_documents" /\ i <= Len(documents)

(* lines 300-313: truncation and prompt construction *)
BuildPrompt ==
    /\ InLoop /\ at = "prompt"
    /\ prompt' = BuildPromptText(template, documents[i].name,
                                 documents[i].content)
    /\ log' = log \o TruncationWarnings(documents[i].content)
    /\ at' = "call"
    /\ stage' = [stage EXCEPT ![i] = "Prompted"]
    /\ UNCHANGED <<documents, phase, i, response_text, process_flow,
                   extracted_flows, origin, j, ids, database,
                   failed_stage, recovered, loads_vars, save_vars, adapter_vars,
                   template, sends>>

(* an exception raised inside the try of extract_process_flow for the     *)
(* document i, before the stage named was reached                          *)
DocumentFails(exc, missed) ==
    LET inner == ExtractProcessFlowExcept(exc, missed # "Sent") IN
    /\ stage' = [stage EXCEPT ![i] = "Failed"]
    /\ failed_stage' = [failed_stage EXCEPT ![i] = missed]
    /\ prompt' = <<>>
    /\ response_text' = JNull
    /\ process_flow' = JNull
    /\ at' = "prompt"
    /\ IF ExtractFromDocumentsCatches(inner.exc)
       THEN /\ log' = log \o inner.log \o
                      <<LogRecord("extract_from_documents", documents[i].name,
                                  inner.exc)>>
            /\ i' = AfterContinue(i)
            /\ phase' = phase
       ELSE /\ log' = log \o inner.log
            /\ i' = i
            /\ phase' = "raised"

(* The bodies the local daemon answers with, as response.json() gives     *)
(* them: a mapping with a response text, a mapping whose response is null, *)
(* a mapping without the key and a body that is a list.                    *)
OllamaBody(value) == JDict(<<<<K_response, value>>>>)
OllamaBodies ==
    {OllamaBody(JStr(text)) : text \in Responses}
        \cup {OllamaBody(JNull), JDict(<<>>), EmptyList}

(* line 57 for the value the provider call returned: json.loads raises    *)
(* TypeError for an argument that is not a str, and safe_json_loads        *)
(* catches json.JSONDecodeError only                                       *)
SafeJsonLoadsOf(value) ==
    IF value.t = "str" THEN safe_json_loads(value.v)
    ELSE Raised("TypeError", <<>>)

(* lines 317-326: the provider call raises.  The extractor is the one of  *)
(* the driver (provider ollama), whose _call_ollama_api logs nothing: the  *)
(* request or response.json() raises, or data.get raises on a body that is *)
(* not a mapping.                                                          *)
ProviderRaises ==
    /\ InLoop /\ at = "call"
    /\ sends' = ProviderCalled(sends, i)
    /\ \/ \E exc \in ProviderErrors : DocumentFails(exc, "Sent")
       \/ \E data \in OllamaBodies :
             /\ ~OllamaResponseText(data).ok
             /\ DocumentFails(OllamaResponseText(data).exc, "Sent")
    /\ UNCHANGED <<documents, extracted_flows, origin, j, ids, database,
                   recovered, loads_vars, save_vars, adapter_vars, template>>

(* lines 317-326: the provider call returns data.get("response", ""),    *)
(* a text or any other value of the body                                   *)
ProviderReturns ==
    /\ InLoop /\ at = "call"
    /\ sends' = ProviderCalled(sends, i)
    /\ \E data \in OllamaBodies :
          /\ OllamaResponseText(data).ok
          /\ response_text' = OllamaResponseText(data).val
    /\ at' = "loads"
    /\ stage' = [stage EXCEPT ![i] = "Sent"]
    /\ UNCHANGED <<documents, phase, i, prompt, process_flow, extracted_flows,
                   origin, j, ids, database, log, failed_stage, recovered,
                   loads_vars, save_vars, adapter_vars, template>>

(* line 330: process_flow = safe_json_loads(response_text) returns r *)
LoadsReturned(r) ==
    /\ r.ok
    /\ process_flow' = r.val
    /\ recovered' = [recovered EXCEPT ![i] = r.val]
    /\ at' = "metadata"
    /\ stage' = [stage EXCEPT ![i] = "Recovered"]
    /\ UNCHANGED <<documents, phase, i, prompt, response_text, extracted_flows,
                   origin, j, ids, database, log, failed_stage, loads_vars, save_vars, adapter_vars,
                   template, sends>>

LoadsReturns ==
    /\ InLoop /\ at = "loads"
    /\ LoadsReturned(SafeJsonLoadsOf(response_text))

(* line 330: safe_json_loads(response_text) raises *)
LoadsRaised(r) ==
    /\ ~r.ok
    /\ DocumentFails(r.exc, "Recovered")
    /\ UNCHANGED <<documents, extracted_flows, origin, j, ids, database,
                   recovered, loads_vars, save_vars, adapter_vars,
                   template, sends>>

LoadsRaises ==
    /\ InLoop /\ at = "loads"
    /\ LoadsRaised(SafeJsonLoadsOf(response_text))

(* lines 334-339 and 521-523: the metadata is added to a mapping and the  *)
(* flow is appended to extracted_flows                                     *)
MetadataAdded ==
    /\ InLoop /\ at = "metadata"
    /\ process_flow.t = "dict"
    /\ extracted_flows' =
          Append(extracted_flows,
                 AddDocumentPaths(AddMetadata(process_flow, documents[i].name),
                                  documents[i]))
    /\ origin' = Append(origin, i)
    /\ stage' = [stage EXCEPT ![i] = "Normalized"]
    /\ i' = i + 1
    /\ at' = "prompt"
    /\ prompt' = <<>>
    /\ response_text' = JNull
    /\ process_flow' = JNull
    /\ UNCHANGED <<documents, phase, j, ids, database, log, failed_stage,
                   recovered, loads_vars, save_vars, adapter_vars,
                   template, sends>>

(* line 334 on a value that is not a mapping: item assignment raises *)
MetadataRaises ==
    /\ InLoop /\ at = "metadata"
    /\ process_flow.t # "dict"
    /\ DocumentFails("TypeError", "Normalized")
    /\ UNCHANGED <<documents, extracted_flows, origin, j, ids, database,
                   recovered, loads_vars, save_vars, adapter_vars,
                   template, sends>>

(* line 528 and the caller: extracted_flows is handed to insert_multiple *)
ReturnFlows ==
    /\ phase = "extract_from_documents" /\ i > Len(documents)
    /\ phase' = "insert_multiple"
    /\ UNCHANGED <<documents, i, at, locals, extracted_flows, origin, j, ids,
                   database, log, stage, failed_stage, recovered, loads_vars, save_vars, adapter_vars,
                   template, sends>>

(***************************************************************************)
(* FlowDatabase.insert_multiple: one iteration of its loop.                *)
(***************************************************************************)
InsertFlow ==
    /\ phase = "insert_multiple" /\ j <= Len(extracted_flows)
    /\ LET flow_id == LastRowId(committed \o pending)
           r == insert_process_flow(extracted_flows[j], flow_id)
       IN  IF r.ok
           THEN /\ committed' = committed \o pending \o r.rows
                /\ pending' = <<>>
                /\ ids' = IdsAppend(ids, flow_id)
                /\ stage' = [stage EXCEPT ![origin[j]] = "Persisted"]
                /\ j' = j + 1
                /\ UNCHANGED <<log, failed_stage, phase>>
           ELSE /\ pending' = pending \o r.rows
                /\ stage' = [stage EXCEPT ![origin[j]] = "Failed"]
                /\ failed_stage' = [failed_stage EXCEPT ![origin[j]] = "Persisted"]
                /\ IF InsertMultipleCatches(r.exc)
                   THEN /\ log' = Append(log, LogRecord("insert_multiple", <<>>, r.exc))
                        /\ j' = AfterContinue(j)
                        /\ phase' = phase
                   ELSE /\ log' = log
                        /\ j' = j
                        /\ phase' = "raised"
                /\ UNCHANGED <<committed, ids>>
    /\ conn' = conn
    /\ UNCHANGED <<documents, i, at, locals, extracted_flows, origin,
                   recovered, loads_vars, save_vars, adapter_vars,
                   template, sends>>

(* line 216: return ids *)
ReturnIds ==
    /\ phase = "insert_multiple" /\ j > Len(extracted_flows)
    /\ phase' = "done"
    /\ UNCHANGED <<documents, i, at, locals, extracted_flows, origin, j, ids,
                   database, log, stage, failed_stage, recovered, loads_vars, save_vars, adapter_vars,
                   template, sends>>

Next ==
    \/ BuildPrompt
    \/ ProviderRaises
    \/ ProviderReturns
    \/ LoadsReturns
    \/ LoadsRaises
    \/ MetadataAdded
    \/ MetadataRaises
    \/ ReturnFlows
    \/ InsertFlow
    \/ ReturnIds

Spec == Init /\ [][Next]_vars

(***************************************************************************)
(* safe_json_loads on its own.                                             *)
(***************************************************************************)
RawText == prefix \o body \o suffix

InitLoads ==
    /\ PipelineInit(<<>>)
    /\ template = prompt_template
    /\ prefix \in Prose
    /\ body \in Bodies
    /\ suffix \in Prose
    /\ result = NotCalled
    /\ calls = <<>>
    /\ loaded = NotLoaded
    /\ AdapterIdle

CallSafeJsonLoads ==
    /\ result = NotCalled
    /\ result' = safe_json_loads(RawText)
    /\ UNCHANGED <<documents, phase, i, at, locals, extracted_flows, origin, j,
                   ids, database, log, stage, failed_stage, recovered,
                   prefix, body, suffix, save_vars, adapter_vars,
                   template, sends>>

NextLoads == CallSafeJsonLoads

SpecLoads == InitLoads /\ [][NextLoads]_vars

(***************************************************************************)
(* FlowDatabase on its own: insert_process_flow and get_process_flow       *)
(* called directly on one connection, with the flows the extractor gives   *)
(* for the mapping responses.                                              *)
(***************************************************************************)
FlowOf(text, doc) ==
    AddDocumentPaths(AddMetadata(safe_json_loads(text).val, doc.name), doc)
MappingResponses ==
    {text \in Responses :
        safe_json_loads(text).ok /\ safe_json_loads(text).val.t = "dict"}
SaveResponses == {RespClean, RespDangling, RespBadStep}
RespNaNStep ==
    <<"{", "\"", "s", "t", "e", "p", "s", "\"", ":", "[", "{", "\"", "s", "t",
      "e", "p", "_", "n", "a", "m", "e", "\"", ":", "N", "a", "N", "}", "]", "}">>
SaveFlows ==
    {FlowOf(text, Doc(1)) : text \in MappingResponses \cap SaveResponses}
        \cup {FlowOf(RespClean, Doc(2)), FlowOf(RespNaNStep, Doc(1))}

CallRecord(flow, ok, fid, exc) ==
    [flow |-> flow, ok |-> ok, process_flow_id |-> fid, exc |-> exc]

InitSave ==
    /\ PipelineInit(<<>>)
    /\ template = prompt_template
    /\ prefix = <<>>
    /\ body = <<>>
    /\ suffix = <<>>
    /\ result = NotCalled
    /\ calls = <<>>
    /\ loaded = NotLoaded
    /\ AdapterIdle

(* insert_process_flow(flow) called with the result r: the rows go to    *)
(* durable storage with the commit of line 194, or stay in the open        *)
(* transaction when a statement raised                                     *)
InsertCalled(flow, flow_id, r) ==
    IF r.ok
    THEN /\ committed' = committed \o pending \o r.rows
         /\ pending' = <<>>
         /\ calls' = Append(calls, CallRecord(flow, TRUE, flow_id, ""))
    ELSE /\ pending' = pending \o r.rows
         /\ committed' = committed
         /\ calls' = Append(calls, CallRecord(flow, FALSE, 0, r.exc))

(* self.conn.cursor() on a closed connection *)
ClosedError == "ProgrammingError"

InsertProcessFlow ==
    /\ Len(calls) < MaxSaves
    /\ \E flow \in SaveFlows :
          IF conn = "open"
          THEN InsertCalled(flow, LastRowId(committed \o pending),
                            insert_process_flow(flow, LastRowId(committed \o pending)))
          ELSE InsertCalled(flow, 0, Fail(ClosedError, <<>>))
    /\ conn' = conn
    /\ UNCHANGED <<documents, phase, i, at, locals, extracted_flows, origin, j,
                   ids, log, stage, failed_stage, recovered, loads_vars, loaded,
                   adapter_vars, template, sends>>

(* a variant that leaves out the next_steps that name no step of the flow *)
get_process_flow_DropDangling(rows, process_flow_id) ==
    IF ParentRows(RowsFor(rows, process_flow_id)) = <<>> THEN JNull
    ELSE DropDangling(json_loads(
            ParentRows(RowsFor(rows, process_flow_id))[1].params[raw_data].v).val)

(* get_process_flow: None when no row has the id, else json.loads of the  *)
(* raw_data column of the row                                              *)
get_process_flow(rows, process_flow_id) ==
    IF ParentRows(RowsFor(rows, process_flow_id)) = <<>> THEN JNull
    ELSE json_loads(
            ParentRows(RowsFor(rows, process_flow_id))[1].params[raw_data].v).val

Loaded(fid, val, exc) ==
    [called |-> TRUE, process_flow_id |-> fid, val |-> val,
     after |-> Len(calls), exc |-> exc]

GetProcessFlow ==
    /\ \E fid \in 1..(Len(ParentRows(committed \o pending)) + 1) :
          loaded' = IF conn = "open"
                    THEN Loaded(fid, get_process_flow(committed \o pending, fid), "")
                    ELSE Loaded(fid, JNull, ClosedError)
    /\ UNCHANGED <<documents, phase, i, at, locals, extracted_flows, origin, j,
                   ids, database, log, stage, failed_stage, recovered,
                   loads_vars, calls, adapter_vars, template, sends>>

(* close(), lines 257-261, also by __exit__: the connection is closed and *)
(* the rows of its open transaction are lost; a second close does nothing  *)
Close ==
    /\ conn' = "closed"
    /\ pending' = <<>>
    /\ UNCHANGED <<documents, phase, i, at, locals, extracted_flows, origin, j,
                   ids, committed, log, stage, failed_stage, recovered,
                   loads_vars, save_vars, adapter_vars, template, sends>>

NextSave ==
    \/ InsertProcessFlow
    \/ GetProcessFlow
    \/ Close

SpecSave == InitSave /\ [][NextSave]_vars

(***************************************************************************)
(* FlowExtractor on its own: the constructor, then one call of the         *)
(* provider by the _call_*_api method of the variant.                      *)
(***************************************************************************)
InitAdapter ==
    /\ PipelineInit(<<>>)
    /\ template = prompt_template
    /\ prefix = <<>>
    /\ body = <<>>
    /\ suffix = <<>>
    /\ result = NotCalled
    /\ calls = <<>>
    /\ loaded = NotLoaded
    /\ config \in Configs
    /\ extractor = NotConstructed
    /\ request = NoRequest
    /\ payload = JNull
    /\ reply = NoReply

pipeline_vars ==
    <<documents, phase, i, at, locals, extracted_flows, origin, j, ids, database,
      log, stage, failed_stage, recovered, loads_vars, save_vars,
      template, sends>>

(* FlowExtractor(...) returns or raises *)
Construct ==
    /\ extractor = NotConstructed
    /\ extractor' = FlowExtractorInit(config)
    /\ log' = log \o PromptTemplateOf(config).log
    /\ UNCHANGED <<documents, phase, i, at, locals, extracted_flows, origin, j,
                   ids, database, stage, failed_stage, recovered, loads_vars,
                   save_vars, template, sends, config, request, payload, reply>>

(* the method of the variant sends its request *)
SendRequest ==
    /\ extractor.ok
    /\ request = NoRequest
    /\ request' = RequestOf(extractor)
    /\ UNCHANGED <<pipeline_vars, config, extractor, payload, reply>>

(* the provider answers and the method takes the text from the answer *)
ResponseArrives ==
    /\ request # NoRequest
    /\ reply = NoReply
    /\ \E response \in PayloadsFor(request.provider) :
          /\ payload' = response
          /\ reply' = ResponseText(request.provider, response)
    /\ UNCHANGED <<pipeline_vars, config, extractor, request>>

(* the call ends with an exception of the transport *)
TransportFails ==
    /\ request # NoRequest
    /\ reply = NoReply
    /\ \E exc \in FailuresOf(request) :
          /\ reply' = ReplyRaised(exc)
          /\ log' = log \o FailureLog(request.provider, exc)
    /\ UNCHANGED <<documents, phase, i, at, locals, extracted_flows, origin, j,
                   ids, database, stage, failed_stage, recovered, loads_vars,
                   save_vars, template, sends, config, extractor, request,
                   payload>>

NextAdapter ==
    \/ Construct
    \/ SendRequest
    \/ ResponseArrives
    \/ TransportFails

SpecAdapter == InitAdapter /\ [][NextAdapter]_vars

(***************************************************************************)
(* The prompt construction of extract_process_flow on its own: one         *)
(* document with a name and a content around max_content_length, and an    *)
(* extractor with one of the templates.  The characters of a content past  *)
(* max_content_length differ from those before it, and one character       *)
(* before it is marked.                                                    *)
(***************************************************************************)
Templates == {<<>>, prompt_template, <<"T", "\n">>}
DocumentNames == {<<>>, <<"d">>, <<"d", "1">>, <<"-", "-", "-">>}
ContentLengths ==
    0..2 \cup (max_content_length - 1)..(max_content_length + MaxOver)
Content(n, mark) ==
    [k \in 1..n |-> IF k > max_content_length THEN "z"
                    ELSE IF k = mark THEN "m" ELSE "c"]
Contents ==
    {Content(n, mark) : n \in ContentLengths, mark \in {1, max_content_length}}
PromptDoc(name, content) ==
    [name |-> name, content |-> content, path |-> <<"/">> \o name,
     relative_path |-> name]

InitPrompt ==
    /\ \E name \in DocumentNames, content \in Contents :
          PipelineInit(<<PromptDoc(name, content)>>)
    /\ template \in Templates
    /\ prefix = <<>>
    /\ body = <<>>
    /\ suffix = <<>>
    /\ result = NotCalled
    /\ calls = <<>>
    /\ loaded = NotLoaded
    /\ AdapterIdle

NextPrompt == BuildPrompt

SpecPrompt == InitPrompt /\ [][NextPrompt]_vars

(***************************************************************************)
(* Properties.                                                             *)
(***************************************************************************)
Range(seq) == {seq[k] : k \in 1..Len(seq)}
FlowIds(rows) == {rows[k].process_flow_id : k \in 1..Len(rows)}
RowsOf(rows, tbl, fid) ==
    SelectSeq(rows, LAMBDA r : r.tbl = tbl /\ r.process_flow_id = fid)
SourceDocument(flow) == DictGet(flow.v, K_source_document, EmptyStr)
ExtractionModel(flow) == DictGet(flow.v, K_extraction_model, EmptyStr)
DocIds == 1..Len(documents)

(* the flow fid is whole in rows: its parent row and one child row for    *)
(* every element of each of its collections                                *)
WholeFlow(rows, fid) ==
    /\ Len(RowsOf(rows, "process_flows", fid)) = 1
    /\ \A n \in 1..Len(ChildTables) :
          LET parent == RowsOf(rows, "process_flows", fid)[1]
              value == DictGet(parent.data.v, ChildKey(ChildTables[n]), EmptyList)
          IN  /\ IterOf(value).ok
              /\ Len(RowsOf(rows, ChildTables[n], fid)) = Len(IterOf(value).items)

(* C1: committed storage holds, for each flow, either its parent row and  *)
(* all of its child rows or no row at all, also after a later flow's save *)
(* has committed.                                                          *)
C1_SaveIsAtomic == \A fid \in FlowIds(committed) : WholeFlow(committed, fid)

(* the failure of document d is on record: an extraction failure by a     *)
(* record naming the document, a persistence failure by one record of     *)
(* insert_multiple per failed insert                                       *)
FailureLogged(d) ==
    IF failed_stage[d] = "Persisted"
    THEN Cardinality({k \in 1..Len(log) : log[k].logger = "insert_multiple"})
            = Cardinality({e \in DocIds : failed_stage[e] = "Persisted"})
    ELSE \E k \in 1..Len(log) :
            /\ log[k].logger = "extract_from_documents"
            /\ log[k].doc = documents[d].name

(* C2: failure isolation: no batch call raises; when the batch is over    *)
(* every document is Persisted or Failed, every failed document is logged *)
(* and has no flow handed on, whatever documents failed before it.         *)
C2_FailureIsolation ==
    /\ phase # "raised"
    /\ phase \in {"insert_multiple", "done"} =>
          \A d \in DocIds :
             /\ stage[d] \in {"Normalized", "Persisted", "Failed"}
             /\ stage[d] = "Failed" /\ failed_stage[d] # "Persisted" =>
                   d \notin Range(origin)
    /\ phase = "done" =>
          \A d \in DocIds :
             /\ stage[d] \in {"Persisted", "Failed"}
             /\ stage[d] = "Failed" => FailureLogged(d)

C2_Witness ==
    /\ phase = "done"
    /\ \E d, e, f \in DocIds :
          /\ d < e /\ e < f
          /\ stage[d] = "Failed" /\ failed_stage[d] = "Recovered"
          /\ stage[e] = "Failed" /\ failed_stage[e] = "Persisted"
          /\ stage[f] = "Persisted"

PersistedDocs == SelectSeq([d \in DocIds |-> d], LAMBDA d : stage[d] = "Persisted")

(* C3: the identifiers returned are those of the documents that reached   *)
(* Persisted, one each, in the order of the documents; a failed document  *)
(* has none.                                                               *)
C3_IdsOfPersistedInOrder ==
    phase = "done" =>
       /\ Len(ids) = Len(PersistedDocs)
       /\ \A k \in 1..Len(ids) :
             /\ Len(RowsOf(committed, "process_flows", ids[k])) = 1
             /\ SourceDocument(RowsOf(committed, "process_flows", ids[k])[1].data)
                   = JStr(documents[PersistedDocs[k]].name)
       /\ \A k, l \in 1..Len(ids) : k # l => ids[k] # ids[l]

C3_Witness ==
    /\ phase = "done"
    /\ Len(documents) = 3
    /\ stage = <<"Persisted", "Failed", "Persisted">>
    /\ failed_stage[2] = "Sent"
    /\ \E k \in 1..Len(log) :
          log[k] = LogRecord("extract_from_documents", documents[2].name, "Timeout")
    /\ Len(ids) = 2

(* C4: after insert_multiple returns, the flows with a committed row are  *)
(* exactly the flows whose identifier it returned.                         *)
C4_RolledBackInFull == phase = "done" => FlowIds(committed) = Range(ids)

(* C5: every extracted flow and every persisted parent row carries the    *)
(* name of its document and the configured model identifier.               *)
C5_IdentityFromPipeline ==
    /\ \A k \in 1..Len(extracted_flows) :
          /\ SourceDocument(extracted_flows[k]) = JStr(documents[origin[k]].name)
          /\ ExtractionModel(extracted_flows[k]) = JStr(model)
    /\ \A k \in 1..Len(ids) :
          \A r \in Range(RowsOf(committed, "process_flows", ids[k])) :
             /\ SourceDocument(r.data) = JStr(documents[PersistedDocs[k]].name)
             /\ ExtractionModel(r.data) = JStr(model)

C5_Witness ==
    \E d \in DocIds :
       /\ stage[d] = "Persisted"
       /\ recovered[d].t = "dict"
       /\ DictHas(recovered[d].v, K_source_document)
       /\ SourceDocument(recovered[d]) # JStr(documents[d].name)
       /\ DictHas(recovered[d].v, K_extraction_model)
       /\ ExtractionModel(recovered[d]) # JStr(model)

StageOrder == <<"Pending", "Prompted", "Sent", "Recovered", "Normalized", "Persisted">>
StageAfter(st) ==
    IF \E k \in 1..5 : StageOrder[k] = st
    THEN StageOrder[(CHOOSE k \in 1..5 : StageOrder[k] = st) + 1]
    ELSE "None"

(* the records of the log that name the document d *)
RecordsOf(d) == {k \in 1..Len(log) : log[k].doc = documents[d].name}

(* a document's stage changes only to the next stage of the order or,     *)
(* from a stage that is not terminal, to Failed, and the step that fails   *)
(* a document writes a log record                                          *)
C6_OrderAndTerminal ==
    [][\A d \in DocIds :
          stage'[d] # stage[d] =>
             \/ stage'[d] = StageAfter(stage[d])
             \/ /\ stage'[d] = "Failed"
                /\ stage[d] \notin {"Persisted", "Failed"}
                /\ Len(log') > Len(log)]_vars

(* every Failed document is named by a record of the log *)
C6_FailureNamesDocument ==
    \A d \in DocIds : stage[d] = "Failed" => RecordsOf(d) # {}

(* records that differ in the document only belong to failures of one     *)
(* stage                                                                   *)
C6_RecordTellsStage ==
    \A d, e \in DocIds :
       \A k \in RecordsOf(d), l \in RecordsOf(e) :
          /\ stage[d] = "Failed" /\ stage[e] = "Failed"
          /\ log[k].logger = log[l].logger
          /\ log[k].exc = log[l].exc
          => failed_stage[d] = failed_stage[e]

(* C6: a document's stage changes only to the next stage of the order or, *)
(* from a stage that is not terminal, to Failed; for every Failed document *)
(* the log has a record that names it, and what such a record carries      *)
(* besides the name tells the stage that failed.                           *)
C6_StageOrder ==
    /\ C6_OrderAndTerminal
    /\ [](C6_FailureNamesDocument /\ C6_RecordTellsStage)

(* C7: a raw text that is valid JSON is returned as the direct parse      *)
(* gives it, and no repair step is applied to it.                          *)
C7_ValidTextUnchanged ==
    result # NotCalled /\ json_loads(RawText).ok =>
       /\ result.ok
       /\ result.val = json_loads(RawText).val
       /\ result.repairs = <<>>

C7_Witness ==
    /\ result # NotCalled
    /\ RawText = BodyNested
    /\ result.ok
    /\ result.val = JList(<<JDict(<<<<<<"a">>, JInt(1)>>>>)>>)

(* C8: a valid JSON object with prose before and/or after it is returned  *)
(* as the object alone parses, whatever its string values contain.         *)
C8_ObjectInProse ==
    /\ result # NotCalled
    /\ json_loads(body).ok
    /\ json_loads(body).val.t = "dict"
    /\ prefix # <<>> \/ suffix # <<>>
    => /\ result.ok
       /\ result.val = json_loads(body).val

(* C9: for a raw text without an opening brace followed by a closing      *)
(* brace, safe_json_loads returns no value and raises the ValueError of a *)
(* malformed output.                                                       *)
C9_NoBracePairFails ==
    result # NotCalled /\ ~BraceSpan(RawText).matched =>
       /\ ~result.ok
       /\ result.exc = "ValueError"

(* C10: the value the metadata assignment of extract_process_flow works   *)
(* on is a mapping, and no TypeError comes out of it.                      *)
C10_OnlyMappingsRecovered ==
    /\ at = "metadata" => process_flow.t = "dict"
    /\ \A k \in 1..Len(log) : log[k].exc # "TypeError"

(* the character at p is a comma immediately before a closing "]" or "}" *)
TrailingCommaAt(s, p) ==
    /\ p < Len(s)
    /\ s[p] = ","
    /\ s[p + 1] \in {"]", "}"}
Without(s, p) == SubSeq(s, 1, p - 1) \o SubSeq(s, p + 1, Len(s))

(* C11: a raw text that is valid JSON but for one comma immediately       *)
(* before a closing "]" or "}" is recovered as the value of the text      *)
(* without that comma, string contents included.                           *)
C11_TrailingCommaRemoved ==
    result # NotCalled =>
       \A p \in 1..Len(RawText) :
          /\ TrailingCommaAt(RawText, p)
          /\ ~json_loads(RawText).ok
          /\ json_loads(Without(RawText, p)).ok
          => /\ result.ok
             /\ result.val = json_loads(Without(RawText, p)).val

ScalarFields == {K_process_name, K_process_description}
SequenceFields == {K_steps, K_roles, K_tools_systems, K_compliance_requirements}

(* C12: a flow extracted from a mapping that lacks optional fields has    *)
(* the empty string for each missing scalar field and the empty sequence  *)
(* for each missing sequence field, and the driver reads its fields        *)
(* without a KeyError.                                                     *)
C12_MissingFieldsDefault ==
    \A k \in 1..Len(extracted_flows) :
       /\ \A key \in ScalarFields :
             ~DictHas(recovered[origin[k]].v, key) =>
                /\ DictHas(extracted_flows[k].v, key)
                /\ DictGet(extracted_flows[k].v, key, JNull) = EmptyStr
       /\ \A key \in SequenceFields :
             ~DictHas(recovered[origin[k]].v, key) =>
                /\ DictHas(extracted_flows[k].v, key)
                /\ DictGet(extracted_flows[k].v, key, JNull) = EmptyList
       /\ PrintResults(extracted_flows[k]) # "KeyError"

(* C13: every document whose response was recovered as a mapping reaches  *)
(* Persisted when the batch is over, whatever is malformed inside the      *)
(* mapping.                                                                *)
C13_MalformedDegrades ==
    phase = "done" => \A d \in Range(origin) : stage[d] = "Persisted"

Absent == [t |-> "absent", v |-> <<>>]

(* the next_steps of every step of a flow, in the order of the steps *)
NextStepsOf(flow) ==
    IF flow.t = "dict" /\ DictGet(flow.v, K_steps, EmptyList).t = "list"
    THEN [k \in 1..Len(DictGet(flow.v, K_steps, EmptyList).v) |->
            IF DictGet(flow.v, K_steps, EmptyList).v[k].t = "dict"
            THEN DictGet(DictGet(flow.v, K_steps, EmptyList).v[k].v, K_next_steps, Absent)
            ELSE Absent]
    ELSE <<>>

DanglingFlow == FlowOf(RespDangling, Doc(1))

(* C14: a flow whose steps name next steps that match no step is saved    *)
(* without error by every call on an open connection, and the flow         *)
(* get_process_flow gives for the identifier of a successful save has the  *)
(* next_steps of every step as they were saved, in order.                  *)
C14_NextStepsRoundTrip ==
    /\ \A k \in 1..Len(calls) :
          calls[k].flow = DanglingFlow /\ ~calls[k].ok =>
             conn = "closed" /\ calls[k].exc = ClosedError
    /\ loaded.called /\ loaded.exc = "" =>
          \A k \in 1..loaded.after :
             calls[k].ok /\ calls[k].process_flow_id = loaded.process_flow_id =>
                /\ loaded.val.t = "dict"
                /\ NextStepsOf(loaded.val) = NextStepsOf(calls[k].flow)

C14_Witness ==
    /\ loaded.called
    /\ \E k \in 1..loaded.after :
          /\ calls[k].flow = DanglingFlow
          /\ calls[k].ok
          /\ calls[k].process_flow_id = loaded.process_flow_id
    /\ NextStepsOf(loaded.val) = <<JList(<<JInt(2), JInt(7)>>)>>
    /\ JInt(2) \notin StepNumbers(loaded.val)

(* C15: the raw_data stored with a persisted flow deserializes to the     *)
(* object safe_json_loads returned for its document, as it was before the *)
(* metadata and the paths were written into it.                            *)
C15_RawDataIsRecovered ==
    phase = "done" =>
       \A k \in 1..Len(ids) :
          \A r \in Range(RowsOf(committed, "process_flows", ids[k])) :
             json_loads(r.params[raw_data].v).val = recovered[PersistedDocs[k]]

IsPrefix(old, new) ==
    /\ Len(old) <= Len(new)
    /\ \A k \in 1..Len(old) : new[k] = old[k]

C16_Witness ==
    \E k, l \in 1..Len(calls) :
       /\ k < l
       /\ calls[k].ok /\ calls[l].ok
       /\ calls[k].flow = calls[l].flow
       /\ calls[k].process_flow_id # calls[l].process_flow_id
       /\ Len(RowsOf(committed, "process_flows", calls[k].process_flow_id)) = 1
       /\ Len(RowsOf(committed, "process_flows", calls[l].process_flow_id)) = 1

(* C16: a call of insert_process_flow leaves every row stored before it   *)
(* as it was; a successful call adds exactly one parent row, under an     *)
(* identifier no earlier row has, also when the same flow was saved        *)
(* before.                                                                 *)
C16_AppendOnly ==
    [][/\ IsPrefix(committed, committed')
       /\ Len(calls') > Len(calls) =>
             IsPrefix(committed \o pending, committed' \o pending')
       /\ Len(calls') > Len(calls) /\ calls'[Len(calls')].ok =>
             /\ Len(ParentRows(committed')) = Len(ParentRows(committed \o pending)) + 1
             /\ calls'[Len(calls')].process_flow_id \notin FlowIds(committed \o pending)
             /\ ParentRows(committed')[Len(ParentRows(committed'))].process_flow_id
                   = calls'[Len(calls')].process_flow_id
             /\ ParentRows(committed')[Len(ParentRows(committed'))].data
                   = calls'[Len(calls')].flow]_vars

(* the response shapes, in their order of priority *)
Field(obj, key) == IF obj.t = "dict" THEN DictGet(obj.v, key, Absent) ELSE Absent
First(obj) == IF obj.t = "list" /\ obj.v # <<>> THEN obj.v[1] ELSE Absent
ShapeChoices(p) == Field(Field(First(Field(p, K_choices)), K_message), K_content).t = "str"
ShapeBlocks(p) ==
    /\ Field(p, K_content).t = "list"
    /\ \A k \in 1..Len(Field(p, K_content).v) :
          Field(Field(p, K_content).v[k], K_text).t = "str"
ShapeResponse(p) == Field(p, K_response).t = "str"
ShapeContent(p) == Field(p, K_content).t = "str"
ShapeText(p) == Field(p, K_text).t = "str"
ShapeMessageContent(p) == Field(Field(p, K_message), K_content).t = "str"
ShapeMessage(p) == Field(p, K_message) # Absent
MatchesShape(p) ==
    \/ ShapeChoices(p) \/ ShapeBlocks(p) \/ ShapeResponse(p) \/ ShapeContent(p)
    \/ ShapeText(p) \/ ShapeMessageContent(p) \/ ShapeMessage(p)
ShapeTextOf(p) ==
    CASE ShapeChoices(p) -> Field(Field(First(Field(p, K_choices)), K_message), K_content).v
      [] ~ShapeChoices(p) /\ ShapeBlocks(p) -> BlockTexts(Field(p, K_content).v, 1)
      [] ~ShapeChoices(p) /\ ~ShapeBlocks(p) /\ ShapeResponse(p) -> Field(p, K_response).v
      [] ~ShapeChoices(p) /\ ~ShapeBlocks(p) /\ ~ShapeResponse(p) /\ ShapeContent(p) ->
            Field(p, K_content).v
      [] OTHER ->
            IF ShapeText(p) THEN Field(p, K_text).v
            ELSE IF ShapeMessageContent(p) THEN Field(Field(p, K_message), K_content).v
            ELSE py_str(Field(p, K_message))

(* C17: for a payload that matches one or more of the response shapes the *)
(* custom adapter returns the text of the first shape, in the order        *)
(* choices, content blocks, response, content, text, message, that the     *)
(* payload matches.                                                        *)
C17_ShapePriority ==
    /\ request.provider = "custom"
    /\ payload # JNull
    /\ MatchesShape(payload)
    => /\ reply.ok
       /\ reply.val = JStr(ShapeTextOf(payload))

(* C18: for a payload that matches none of the response shapes a requests *)
(* adapter returns the whole payload serialized and logs a warning.        *)
C18_UnknownShapeSerialized ==
    /\ request.provider \in {"custom", "ollama"}
    /\ payload # JNull
    /\ ~MatchesShape(payload)
    => /\ reply.ok
       /\ reply.val = JStr(json_dumps(payload))
       /\ reply.warnings > 0

CredentialMissing(cfg) ==
    CASE Lower(cfg.provider) = "openai" -> cfg.api_key = "" /\ cfg.OPENAI_API_KEY = ""
      [] Lower(cfg.provider) = "anthropic" -> cfg.api_key = "" /\ cfg.ANTHROPIC_API_KEY = ""
      [] Lower(cfg.provider) = "custom" -> cfg.api_key = ""
      [] OTHER -> FALSE
BaseUrlMissing(cfg) == Lower(cfg.provider) = "custom" /\ cfg.api_base_url = ""
LibraryAvailable(cfg) ==
    CASE Lower(cfg.provider) = "openai" -> cfg.openai_available
      [] Lower(cfg.provider) = "anthropic" -> cfg.anthropic_available
      [] Lower(cfg.provider) \in {"ollama", "custom"} -> cfg.requests_available
      [] OTHER -> TRUE

PromptLoads(cfg) == cfg.prompt_file \in {"", "prompt_text.txt"}
Misconfigured(cfg) ==
    \/ CredentialMissing(cfg)
    \/ BaseUrlMissing(cfg)
    \/ Lower(cfg.provider) \notin Providers

(* the error the constructor raises first for a configuration that is     *)
(* misconfigured                                                           *)
FirstError(cfg) ==
    IF cfg.prompt_file = "missing.txt" THEN "FileNotFoundError"
    ELSE IF cfg.prompt_file = "prompts" THEN "IsADirectoryError"
    ELSE IF ~LibraryAvailable(cfg) THEN "ImportError"
    ELSE "ValueError"

(* C19 as stated: the constructor raises the configuration error          *)
(* (ValueError), and no provider call is ever made, whenever the           *)
(* credential of the variant is missing, the base URL of the custom        *)
(* variant is missing or the variant is not supported; the ollama variant  *)
(* is constructed.                                                         *)
C19_AsStated ==
    /\ request # NoRequest => extractor.ok
    /\ extractor # NotConstructed =>
          /\ Misconfigured(config) =>
                ~extractor.ok /\ extractor.exc = "ValueError"
          /\ Lower(config.provider) = "ollama" => extractor.ok

(* C19: the constructor raises, and no provider call is ever made,        *)
(* whenever the credential of the variant is missing, the base URL of the  *)
(* custom variant is missing or the variant is not supported: the error is *)
(* the one of the prompt file when the file cannot be loaded, else         *)
(* ImportError when the library of the variant is not installed, else      *)
(* ValueError.  The ollama variant is constructed without a credential     *)
(* when its prompt file loads and requests is installed, and only then.    *)
C19_ConstructionFails ==
    /\ request # NoRequest => extractor.ok
    /\ extractor # NotConstructed =>
          /\ Misconfigured(config) =>
                ~extractor.ok /\ extractor.exc = FirstError(config)
          /\ Lower(config.provider) = "ollama" =>
                (extractor.ok <=> PromptLoads(config) /\ config.requests_available)

C19_Witness ==
    /\ config.provider = "custom"
    /\ config.api_key = "k"
    /\ config.api_base_url = ""
    /\ config.requests_available
    /\ PromptLoads(config)
    /\ extractor = InitRaised("ValueError")
    /\ request = NoRequest

(* C20: every provider call is made with a timeout, so that a provider    *)
(* that does not answer ends the call with a transport error.              *)
C20_EveryCallHasTimeout ==
    request # NoRequest =>
       /\ request.timeout # NoTimeout
       /\ "Timeout" \in FailuresOf(request)

(* the documents a failure record of extract_from_documents with one of   *)
(* the exceptions excs was logged for                                      *)
FailedWith(excs) ==
    {d \in 1..Len(documents) :
        \E k \in 1..Len(log) :
           /\ log[k].logger = "extract_from_documents"
           /\ log[k].doc = documents[d].name
           /\ log[k].exc \in excs}

(* a provider call was made for the document d in the step *)
SendFor(d) == sends'[d] > sends[d]

C21_Witness ==
    /\ phase = "insert_multiple"
    /\ Len(documents) = 3
    /\ FailedWith({"Timeout"}) = {1}
    /\ FailedWith({"ValueError"}) = {2}
    /\ sends = [d \in 1..3 |-> 1]
    /\ stage[1] = "Failed" /\ stage[2] = "Failed"
    /\ stage[3] = "Normalized"

(* C21: in one batch run at most one provider call is made for each       *)
(* document; a document whose call failed in transport or timed out, or    *)
(* whose output was malformed, is Failed after exactly one call, and no    *)
(* step makes a call for a document that had one or that is Failed.        *)
C21_NoRetry ==
    /\ [](\A d \in 1..Len(documents) :
             /\ sends[d] <= 1
             /\ d \in FailedWith(TransportErrors
                                  \cup {"UnboundLocalError", "ValueError"}) =>
                   stage[d] = "Failed" /\ sends[d] = 1)
    /\ [][\A d \in 1..Len(documents) :
             /\ SendFor(d) => sends[d] = 0 /\ stage[d] # "Failed"
             /\ stage[d] = "Failed" => stage'[d] = "Failed"]_vars

(* the part of the prompt after the template and the header *)
ContentPart(text) ==
    SubSeq(text, Len(template) + Len(PromptHeader) + Len(documents[i].name)
                             + Len(PromptFooter) + 1, Len(text))
HeaderPart(text) ==
    SubSeq(text, Len(template) + 1,
           Len(template) + Len(PromptHeader) + Len(documents[i].name)
                         + Len(PromptFooter))
TooLong(document_content) == Len(document_content) > max_content_length
Warnings == {k \in 1..Len(log) : log[k].level = "WARNING"}

C22_Witness ==
    /\ at = "call"
    /\ template = <<"T", "\n">>
    /\ documents[i].name = <<"d", "1">>
    /\ Len(documents[i].content) = max_content_length + 1
    /\ documents[i].content[max_content_length] = "m"
    /\ Len(prompt) = 2 + 24 + max_content_length
    /\ prompt[Len(prompt)] = "m"
    /\ Len(log) = 1

(* C22: the prompt built for a document is the template, then the header  *)
(* that names the document, then the content; a content longer than        *)
(* max_content_length is cut to its first max_content_length characters    *)
(* and one warning is logged, a shorter one is taken whole and nothing is  *)
(* logged; the step raises nothing and changes only the prompt and the log. *)
C22_PromptBuilt ==
    /\ [](at = "call" =>
            /\ SubSeq(prompt, 1, Len(template)) = template
            /\ HeaderPart(prompt) =
                  PromptHeader \o documents[i].name \o PromptFooter
            /\ IF TooLong(documents[i].content)
               THEN /\ ContentPart(prompt) =
                          [k \in 1..max_content_length |->
                              documents[i].content[k]]
                    /\ Cardinality(Warnings) = 1
               ELSE /\ ContentPart(prompt) = documents[i].content
                    /\ Warnings = {}
            /\ phase = "extract_from_documents"
            /\ stage[i] = "Prompted")
    /\ [][at = "prompt" /\ at' = "call" =>
            /\ Len(log') - Len(log) = Cardinality(Warnings') - Cardinality(Warnings)
            /\ UNCHANGED <<documents, template, phase, i, response_text,
                           process_flow, extracted_flows, origin, j, ids,
                           database, failed_stage, recovered, sends>>]_vars

=============================================================================
